---- MODULE Spec2Model ----
(***************************************************************************)
(* Document Structure Extraction Engine of AutoLatex2.                     *)
(*                                                                         *)
(* DocumentParserTool._run dispatches on the file extension to one of the  *)
(* three extractors (docx, Markdown, plain text), validates the assembled  *)
(* tree and returns it.  Text is modelled as a sequence of one-character   *)
(* strings, so that the regular expressions of the source are operators    *)
(* over characters.  Optional values are sequences of length 0 or 1.       *)
(* A character outside ASCII is written as the name of its code point      *)
(* ("U+56FE"), the backtick as "U+0060".                                   *)
(*                                                                         *)
(* The extractors are those of the package tools/document_parser           *)
(* (docx_parser.py, md_parser.py, txt_parser.py).  The directory tools/    *)
(* also holds older modules of the same names, which is what the relative  *)
(* imports of document_tools.py resolve to; they are not modelled.         *)
(*                                                                         *)
(* SpecConcurrent runs a second call of parse_docx_to_json beside the      *)
(* first one, on the same image directory.  SpecCompile is                 *)
(* LaTeXCompilerTool._run with compile_latex_to_pdf of                     *)
(* tools/latex_compiler/compiler.py.                                       *)
(***************************************************************************)
EXTENDS Integers, Sequences, FiniteSets, TLC

VARIABLES
  file,        \* the input file: existence, extension, format payload
  pc,          \* position of the call
  idx,         \* docx: index of the next body node of _iter_block_items
  metadata,    \* parsed_data["metadata"]
  content,     \* parsed_data["content"]
  bibliography,           \* parsed_data["bibliography"]
  bibliography_started,   \* docx: local of parse_docx_to_json
  current_list_items,     \* docx: local of parse_docx_to_json
  current_list_num_id,    \* docx: local of parse_docx_to_json, <<>> is None
  written,     \* the image files in parsed_images
  validation,  \* outcome of jsonschema.validate, "" before it ran
  result,      \* <<>> or <<the value _run returned>>
  error,       \* <<>> or <<the exception raised>>
  run,         \* 1 or 2: which of two successive calls on the same file
  first,       \* <<>> or <<the structure of the tree the first call produced>>
  scan,        \* plain text and Markdown: the locals of the extractor
  peer,        \* a second call of parse_docx_to_json that runs at the same time
  writes,      \* for each path in parsed_images, how often it was opened for writing
  compile      \* LaTeXCompilerTool._run: its input, its position and its files

vars == <<file, pc, idx, metadata, content, bibliography, bibliography_started,
          current_list_items, current_list_num_id, written, validation,
          result, error, run, first, scan, peer, writes, compile>>

----------------------------------------------------------------------------
(* Bounds of the model *)

\* longest docx body (after the head paragraphs) that Init enumerates
MaxBody == 2
\* number of distinct names uuid.uuid4() can draw
MaxUuid == 4

----------------------------------------------------------------------------
(* Characters and strings *)

Digit == {"0", "1", "2", "3", "4", "5", "6", "7", "8", "9"}
Space == {" ", "\t", "\n"}
UpperAlpha == <<"A","B","C","D","E","F","G","H","I","J","K","L","M",
                "N","O","P","Q","R","S","T","U","V","W","X","Y","Z">>
LowerAlpha == <<"a","b","c","d","e","f","g","h","i","j","k","l","m",
                "n","o","p","q","r","s","t","u","v","w","x","y","z">>
AlphaIdx == 1..26

IsUpper(c) == \E i \in AlphaIdx : UpperAlpha[i] = c
IsLower(c) == \E i \in AlphaIdx : LowerAlpha[i] = c
Lower(c) == IF IsUpper(c) THEN LowerAlpha[CHOOSE i \in AlphaIdx : UpperAlpha[i] = c] ELSE c
LowerStr(s) == [i \in 1..Len(s) |-> Lower(s[i])]

DigitVal(c) == CHOOSE n \in 0..9 : <<"0","1","2","3","4","5","6","7","8","9">>[n + 1] = c

\* the least and the greatest element of a non-empty set of integers
Min(S) == CHOOSE i \in S : \A j \in S : i <= j
Max(S) == CHOOSE i \in S : \A j \in S : i >= j

StartsWith(s, p) == Len(s) >= Len(p) /\ SubSeq(s, 1, Len(p)) = p
Drop(s, n) == SubSeq(s, n + 1, Len(s))
\* length of the longest prefix of s made of characters of set
Span(s, set) ==
  LET others == {i \in 1..Len(s) : s[i] \notin set}
  IN IF others = {} THEN Len(s) ELSE Min(others) - 1
\* position of the first occurrence of character c in s, 0 when absent
Find(s, c) ==
  LET hits == {i \in 1..Len(s) : s[i] = c}
  IN IF hits = {} THEN 0 ELSE Min(hits)

\* s.lstrip(), s.rstrip(), s.strip()
LStrip(s) == Drop(s, Span(s, Space))
RStrip(s) ==
  LET kept == {i \in 1..Len(s) : s[i] \notin Space}
  IN IF kept = {} THEN <<>> ELSE SubSeq(s, 1, Max(kept))
Strip(s) == RStrip(LStrip(s))
\* s.split(seps): the pieces of s between characters of seps
RECURSIVE Split(_, _)
Split(s, seps) ==
  LET n == Span(s, {c \in {s[i] : i \in 1..Len(s)} : c \notin seps})
  IN IF n = Len(s) THEN <<s>> ELSE <<SubSeq(s, 1, n)>> \o Split(Drop(s, n + 1), seps)
\* len(s.split()): number of whitespace-separated words
RECURSIVE WordCount(_)
WordCount(s) ==
  LET t == LStrip(s)
  IN IF t = <<>> THEN 0
     ELSE 1 + WordCount(Drop(t, Span(t, {c \in {t[i] : i \in 1..Len(t)} : c \notin Space})))
\* "\n".join(lines)
RECURSIVE JoinLines(_)
JoinLines(ls) ==
  IF ls = <<>> THEN <<>>
  ELSE IF Len(ls) = 1 THEN ls[1]
  ELSE ls[1] \o <<"\n">> \o JoinLines(Tail(ls))

None == <<>>
Some(x) == <<x>>

\* the metadata before anything is found
NoMetadata == [title |-> <<>>, authors |-> <<>>, abstract |-> <<>>, keywords |-> <<>>]

----------------------------------------------------------------------------
(* docx: the input document *)

\* a body paragraph: style name, numPr (<<>> or <<numId, ilvl>>), text, and
\* for each run the set of relationship ids its drawings refer to
Para(style, num, text, runs) ==
  [kind |-> "p", style |-> style, num |-> num, text |-> text, runs |-> runs, rows |-> <<>>]
\* a body table: rows of cell texts
Tbl(rows) ==
  [kind |-> "tbl", style |-> <<>>, num |-> <<>>, text |-> <<>>, runs |-> <<>>, rows |-> rows]

Normal == <<"N","o","r","m","a","l">>
TitleStyle == <<"T","i","t","l","e">>
Heading7 == <<"H","e","a","d","i","n","g"," ","7">>
ZhHeading2 == <<"U+6807","U+9898"," ","2">>

\* para.part.related_parts: relationship id -> content type of the part
\* (a content type is the pair <<type, subtype>>; "r9" is referred to by a run
\* and has no part, so related_parts["r9"] raises KeyError)
RelatedParts ==
  [r1 |-> <<"image", "png">>, r2 |-> <<"image", "jpeg">>, r3 |-> <<"application", "xml">>]

\* head paragraphs
TitlePara == Para(TitleStyle, <<>>, <<"T","i">>, <<>>)
AuthorPara == Para(Normal, <<>>, <<"A","n","n",","," ","B","o","(","U",")">>, <<>>)
AbstractPara == Para(Normal, <<>>, <<"U+6458","U+8981",":"," ","s","u","m">>, <<>>)
KeywordsPara == Para(Normal, <<>>, <<"U+5173","U+952E","U+8BCD",":","k","1",";","k","2",".">>, <<>>)
EmptyPara == Para(Normal, <<>>, <<" ">>, <<>>)

DocxHeads ==
  { <<TitlePara, AuthorPara, AbstractPara, KeywordsPara>>,
    <<TitlePara, AbstractPara, KeywordsPara>>,
    <<TitlePara, AuthorPara, KeywordsPara>>,
    <<>> }

\* body nodes
CitingPara == Para(Normal, <<>>, <<"[","1","]"," ","s">>, <<>>)
CaptionPara == Para(Normal, <<>>, <<"U+56FE","1",":","x">>, <<>>)
TableCaptionPara == Para(Normal, <<>>, <<"U+8868","1","U+FF1A","U+7ED3","U+679C">>, <<>>)
ImagePara == Para(Normal, <<>>, <<>>, <<{"r1"}>>)
TwoImagePara == Para(Normal, <<>>, <<>>, <<{"r1", "r2"}, {"r3", "r9"}>>)
TablePara == Tbl(<< <<<<"a">>, <<"b">>>>, <<<<"c">>>> >>)
NativeItem == Para(Normal, <<1, 0>>, <<"U+56FE","2"," ","y">>, <<>>)
NegativeItem == Para(Normal, <<-1, 1>>, <<"n","i">>, <<>>)
ManualItem == Para(Normal, <<>>, <<"(","1",")"," ","m">>, <<>>)
HeadingPara == Para(Heading7, <<>>, <<"1",".","1"," ","h">>, <<>>)
ZhHeadingPara == Para(ZhHeading2, <<1, 0>>, <<"I","."," ","B">>, <<>>)
\* a sentence with an empty checkbox and a dash in brackets
TodoText == <<"d","o"," ","[","-","]"," ","o","r"," ","["," ","]"," ","n","o","w">>
TodoPara == Para(Normal, <<>>, TodoText, <<>>)
NumberedHeadingPara == Para(Heading7, <<>>, <<"1","."," ","x">>, <<>>)
ReferencesPara == Para(Normal, <<>>, <<"U+53C2","U+8003","U+6587","U+732E">>, <<>>)
\* a sentence that begins with the word
ReferringPara == Para(Normal, <<>>, <<"R","e","f","e","r","e","n","c","e","s"," ","t","o"," ","x">>, <<>>)

DocxBodyNodes ==
  { CitingPara, CaptionPara, TableCaptionPara, ImagePara, TwoImagePara, TablePara,
    NativeItem, NegativeItem, ManualItem, HeadingPara, ReferencesPara }

\* longer documents: an empty first paragraph and no keywords, a sentence
\* about references in the running text, a heading
\* that is also a list item, a heading whose text opens with "1. ",
\* an abstract closed by an empty paragraph, a title below the author line,
\* a sentence with a checkbox, captions and lists before a bibliography
DocxLongFiles ==
  { <<EmptyPara, TitlePara, AuthorPara, AbstractPara, ReferencesPara, ManualItem>>,
    <<TitlePara, AuthorPara, AbstractPara, KeywordsPara, ReferringPara, CitingPara>>,
    <<TitlePara, AuthorPara, AbstractPara, KeywordsPara, ZhHeadingPara, NativeItem,
      ZhHeadingPara>>,
    <<TitlePara, AuthorPara, AbstractPara, KeywordsPara, HeadingPara, NumberedHeadingPara>>,
    <<TitlePara, AuthorPara, AbstractPara, EmptyPara, CitingPara>>,
    <<AuthorPara, TitlePara, AbstractPara, KeywordsPara>>,
    <<TitlePara, AuthorPara, AbstractPara, KeywordsPara, TodoPara, CitingPara>>,
    <<TitlePara, AuthorPara, AbstractPara, KeywordsPara, CaptionPara, ImagePara,
      TableCaptionPara, TablePara, NativeItem, NativeItem, ManualItem, ReferencesPara,
      CitingPara>> }

SeqsUpTo(S, n) == UNION {[1..k -> S] : k \in 0..n}

\* the documents Init draws from: a head followed by a body
DocxDocuments ==
  {h \o b : h \in DocxHeads, b \in SeqsUpTo(DocxBodyNodes, MaxBody)} \cup DocxLongFiles

----------------------------------------------------------------------------
(* docx: pure functions of docx_parser.py *)

CaptionPrefixes == { <<"U+8868">>, <<"t","a","b","l","e">>, <<"U+56FE">>, <<"f","i","g","u","r","e">> }
CaptionNumberClass == Digit \cup {"U+4E00","U+4E8C","U+4E09","U+56DB","U+4E94","U+516D","U+4E03","U+516B","U+4E5D","U+5341",".","-"}
CaptionSepClass == {":", "U+FF1A", "U+FF0E", ".", "-"} \cup Space

\* (.+): at least one character other than a newline
CaptionTail(r) == r # <<>> /\ Head(r) # "\n"
\* [:U+FF1AU+FF0E.\s-]*(.+)
RECURSIVE CaptionSeps(_)
CaptionSeps(r) ==
  CaptionTail(r) \/ (r # <<>> /\ Head(r) \in CaptionSepClass /\ CaptionSeps(Tail(r)))
\* [\dU+4E00U+4E8CU+4E09U+56DBU+4E94U+516DU+4E03U+516BU+4E5DU+53410-9\.-]*[:U+FF1AU+FF0E.\s-]*(.+)
RECURSIVE CaptionNumber(_)
CaptionNumber(r) ==
  CaptionSeps(r) \/ (r # <<>> /\ Head(r) \in CaptionNumberClass /\ CaptionNumber(Tail(r)))
\* \s*[\d...]*[:U+FF1AU+FF0E.\s-]*(.+)
RECURSIVE CaptionSpaces(_)
CaptionSpaces(r) ==
  CaptionNumber(r) \/ (r # <<>> /\ Head(r) \in Space /\ CaptionSpaces(Tail(r)))
\* CAPTION_PATTERN.match(text), re.IGNORECASE
CAPTION_PATTERN(text) ==
  \E p \in CaptionPrefixes :
    StartsWith(LowerStr(text), p) /\ CaptionSpaces(Drop(text, Len(p)))

\* re.match(prefix\s*(\d), style_name): the digit, or None
PrefixDigit(name, prefix) ==
  LET rest == LStrip(Drop(name, Len(prefix)))
  IN IF StartsWith(name, prefix) /\ rest # <<>> /\ Head(rest) \in Digit
     THEN Some(DigitVal(Head(rest))) ELSE None

\* _guess_heading_level(style_name): Some(level) or None
DocxGuessHeadingLevel(style_name) ==
  LET en == PrefixDigit(LowerStr(style_name), <<"h","e","a","d","i","n","g">>)
      zh == PrefixDigit(style_name, <<"U+6807","U+9898">>)
  IN IF en # None THEN en ELSE zh

\* _get_list_info(para): Some([num_id, level]) when the paragraph has a numPr
\* with a numId, else None
_get_list_info(para) ==
  IF para.num = <<>> THEN None ELSE Some([num_id |-> para.num[1], level |-> para.num[2]])

\* one pattern of _detect_manual_list_item: ^open? class+ close \s+ (.+)$
\* (re.DOTALL), with at most maxLen characters of the class
ManualPattern(text, open, class, maxLen, close, fmt) ==
  LET t1 == IF open = <<>> THEN text ELSE Drop(text, 1)
      n == Span(t1, class)
      t2 == Drop(t1, n)
      t3 == Drop(t2, 1)
      w == Span(t3, Space)
      t4 == Drop(t3, w)
  IN IF /\ (open = <<>> \/ StartsWith(text, open))
        /\ n >= 1 /\ n <= maxLen
        /\ t2 # <<>> /\ Head(t2) = close
        /\ w >= 1 /\ t4 # <<>>
     THEN Some([number |-> SubSeq(t1, 1, n), text |-> Strip(t4), format |-> fmt])
     ELSE None

RECURSIVE FirstSome(_)
FirstSome(options) ==
  IF options = <<>> THEN None
  ELSE IF Head(options) # None THEN Head(options) ELSE FirstSome(Tail(options))

LowerSet == {LowerAlpha[i] : i \in AlphaIdx}
RomanSet == {"i", "v", "x", "I", "V", "X"}

\* _detect_manual_list_item(text)
_detect_manual_list_item(text) ==
  FirstSome(<< ManualPattern(text, <<"(">>, Digit, Len(text), ")", "parenthesis"),
               ManualPattern(text, <<>>, Digit, Len(text), ".", "dot"),
               ManualPattern(text, <<>>, Digit, Len(text), ")", "right_paren"),
               ManualPattern(text, <<>>, LowerSet, 1, ")", "letter"),
               ManualPattern(text, <<>>, RomanSet, Len(text), ".", "roman") >>)

\* length of the longest prefix of s of the form \d+(\.\d+)*
RECURSIVE DottedLen(_)
DottedLen(s) ==
  LET n == Span(s, Digit)
      r == Drop(s, n)
  IN IF n = 0 THEN 0
     ELSE IF Len(r) >= 2 /\ r[1] = "." /\ r[2] \in Digit THEN n + 1 + DottedLen(Tail(r))
     ELSE n

\* re.match(r"^(\d+(\.\d+)*)\s+(.*)$", text): Some([number, text]) or None
HeadingNumber(text) ==
  LET n == DottedLen(text)
      r == Drop(text, n)
      w == Span(r, Space)
      t == Drop(r, w)
  IN IF n >= 1 /\ w >= 1 /\ Find(t, "\n") = 0
     THEN Some([number |-> SubSeq(text, 1, n), text |-> t]) ELSE None

EndsWith(s, p) == Len(s) >= Len(p) /\ SubSeq(s, Len(s) - Len(p) + 1, Len(s)) = p

\* _detect_formula_block(text) of docx_parser.py: Some(latex) or None
DocxDetectFormulaBlock(raw) ==
  LET text == Strip(raw)
      dollars == <<"$", "$">>
      open == <<"\\", "[">>
      close == <<"\\", "]">>
  IN IF Len(text) >= 5 /\ StartsWith(text, dollars) /\ EndsWith(text, dollars)
       THEN Some(Strip(SubSeq(text, 3, Len(text) - 2)))
     ELSE IF Len(text) >= 5 /\ StartsWith(text, open) /\ EndsWith(text, close)
       THEN Some(Strip(SubSeq(text, 3, Len(text) - 2)))
     ELSE None

Contains(s, p) == \E i \in 0..(Len(s) - Len(p)) : SubSeq(s, i + 1, i + Len(p)) = p

\* the groups of the matches of \[(?![\sxX\*]\])([0-9,\-\s]+)\] in text from
\* position i on
RECURSIVE DocxNumericMarkersFrom(_, _)
DocxNumericMarkersFrom(text, i) ==
  LET starts == {j \in i..Len(text) : text[j] = "["}
      k == Min(starts)
      n == Span(Drop(text, k), Digit \cup {",", "-"} \cup Space)
      task == Len(text) >= k + 2 /\ text[k + 1] \in Space \cup {"x", "X", "*"} /\ text[k + 2] = "]"
      hit == n >= 1 /\ Len(text) >= k + n + 1 /\ text[k + n + 1] = "]" /\ ~task
  IN IF starts = {} THEN <<>>
     ELSE IF hit THEN <<SubSeq(text, k + 1, k + n)>> \o DocxNumericMarkersFrom(text, k + n + 2)
     ELSE DocxNumericMarkersFrom(text, k + 1)

\* the matches of \([A-Za-z][^)]*\d{4}[a-z]?\) in text from position i on
RECURSIVE DocxAuthorYearFrom(_, _)
DocxAuthorYearFrom(text, i) ==
  LET starts == {j \in i..Len(text) : text[j] = "(" /\ \E c \in (j + 1)..Len(text) : text[c] = ")"}
      o == Min(starts)
      c == Min({j \in (o + 1)..Len(text) : text[j] = ")"})
      inner == SubSeq(text, o + 1, c - 1)
      m == Len(inner)
      year(e) == e >= 5 /\ \A q \in (e - 3)..e : inner[q] \in Digit
      hit == /\ m >= 5 /\ (IsUpper(inner[1]) \/ IsLower(inner[1]))
             /\ (year(m) \/ (IsLower(inner[m]) /\ year(m - 1)))
  IN IF starts = {} THEN <<>>
     ELSE IF hit THEN <<SubSeq(text, o, c)>> \o DocxAuthorYearFrom(text, c + 1)
     ELSE DocxAuthorYearFrom(text, o + 1)

\* _extract_reference_markers(text) of docx_parser.py
DocxExtractReferenceMarkers(text) ==
  DocxNumericMarkersFrom(text, 1) \o DocxAuthorYearFrom(text, 1)

\* _paragraph_to_content(para): Some(block) or None; src is the index of the
\* body node the block is built from (bookkeeping of the model).  The keys
\* "inlines" and "inline_formulas" of a paragraph block are left out.
_paragraph_to_content(para, src) ==
  LET text == Strip(para.text)
      heading_level == DocxGuessHeadingLevel(para.style)
      m == HeadingNumber(text)
      formula_block == DocxDetectFormulaBlock(text)
  IN IF text = <<>> THEN None
     ELSE IF heading_level # None /\ heading_level # Some(0)
       THEN Some([type |-> "heading", level |-> heading_level[1],
                  number |-> IF m # None THEN m[1].number ELSE <<>>,
                  text |-> IF m # None THEN m[1].text ELSE text, src |-> src])
     ELSE IF Contains(LowerStr(para.style), <<"c","o","d","e">>)
       THEN Some([type |-> "code", language |-> <<>>, content |-> text, src |-> src])
     ELSE IF formula_block # None /\ formula_block # Some(<<>>)
       THEN Some([type |-> "formula_block", latex |-> formula_block[1], src |-> src])
     ELSE IF DocxExtractReferenceMarkers(text) # <<>>
       THEN Some([type |-> "paragraph", text |-> text,
                  reference_markers |-> DocxExtractReferenceMarkers(text), src |-> src])
     ELSE Some([type |-> "paragraph", text |-> text, src |-> src])

\* _table_to_content(table)
_table_to_content(table, src) ==
  [type |-> "table", caption |-> <<>>, latex |-> <<>>, image_path |-> <<>>,
   data |-> [i \in 1..Len(table.rows) |->
               [j \in 1..Len(table.rows[i]) |-> Strip(table.rows[i][j])]],
   src |-> src]

\* a mutant of _pop_caption_candidate: returns the caption and leaves the
\* paragraph in the list
PopCaptionKeepParagraph(content_list) ==
  IF content_list = <<>> THEN [caption |-> <<>>, content |-> content_list]
  ELSE LET last_item == content_list[Len(content_list)]
       IN IF last_item.type = "paragraph" /\ CAPTION_PATTERN(Strip(last_item.text))
          THEN [caption |-> Strip(last_item.text), content |-> content_list]
          ELSE [caption |-> <<>>, content |-> content_list]

\* _pop_caption_candidate(content_list): the caption text ("" when the last
\* block is no caption paragraph) and the list after the pop
_pop_caption_candidate(content_list) ==
  IF content_list = <<>> THEN [caption |-> <<>>, content |-> content_list]
  ELSE LET last_item == content_list[Len(content_list)]
       IN IF last_item.type # "paragraph" THEN [caption |-> <<>>, content |-> content_list]
          ELSE IF CAPTION_PATTERN(Strip(last_item.text))
            THEN [caption |-> Strip(last_item.text),
                  content |-> SubSeq(content_list, 1, Len(content_list) - 1)]
          ELSE [caption |-> <<>>, content |-> content_list]

----------------------------------------------------------------------------
(* docx: _parse_metadata *)

Chars(s) == {s[i] : i \in 1..Len(s)}
\* length of the longest prefix of s with no character of set
SpanNot(s, set) == Span(s, Chars(s) \ set)
\* s.split(c, 1)[-1]: what follows the first c, all of s when there is none
AfterFirst(s, c) == IF Find(s, c) = 0 THEN s ELSE Drop(s, Find(s, c))

AbstractMarker(text) ==
  \/ StartsWith(LowerStr(text), <<"a","b","s","t","r","a","c","t">>)
  \/ StartsWith(text, <<"U+6458","U+8981">>)
KeywordsMarker(text) ==
  \/ StartsWith(LowerStr(text), <<"k","e","y","w","o","r","d","s">>)
  \/ StartsWith(text, <<"U+5173","U+952E","U+8BCD">>)
  \/ StartsWith(LowerStr(text), <<"i","n","d","e","x"," ","t","e","r","m","s">>)
  \/ StartsWith(LowerStr(text), <<"k","e","y"," ","w","o","r","d","s">>)

\* the title loop of _parse_metadata: the text of the first non-empty
\* paragraph (both branches of the loop body assign it and break)
RECURSIVE DocxTitle(_)
DocxTitle(paras) ==
  IF paras = <<>> THEN <<>>
  ELSE LET text == Strip(Head(paras).text)
       IN IF text = <<>> THEN DocxTitle(Tail(paras))
          ELSE IF StartsWith(LowerStr(Head(paras).style), <<"t","i","t","l","e">>) THEN text
          ELSE text

\* the author_candidates loop: short paragraphs before the abstract marker
RECURSIVE AuthorCandidates(_, _)
AuthorCandidates(paras, title) ==
  IF paras = <<>> THEN <<>>
  ELSE LET text == Strip(Head(paras).text)
       IN IF text = <<>> THEN AuthorCandidates(Tail(paras), title)
          ELSE IF AbstractMarker(text) THEN <<>>
          ELSE IF text = title THEN AuthorCandidates(Tail(paras), title)
          ELSE IF WordCount(text) <= 20 THEN <<text>> \o AuthorCandidates(Tail(paras), title)
          ELSE AuthorCandidates(Tail(paras), title)

AuthorSeparators == {";", "U+3001", "U+FF0C", ",", "\n"}

\* re.match(r"([^(]+)(?:\(([^)]+)\))?", segment) and the record built from it
AuthorOfSegment(segment) ==
  LET n == SpanNot(segment, {"("})
      r == Drop(segment, n + 1)
      k == SpanNot(r, {")"})
      hasAff == n < Len(segment) /\ k >= 1 /\ k < Len(r)
  IN IF n = 0 THEN <<>>
     ELSE << [name |-> Strip(SubSeq(segment, 1, n)),
              affiliation |-> IF hasAff THEN Strip(SubSeq(r, 1, k)) ELSE <<>>,
              email |-> <<>>] >>

RECURSIVE AuthorsOfSegments(_)
AuthorsOfSegments(segments) ==
  IF segments = <<>> THEN <<>>
  ELSE LET segment == Strip(Head(segments))
       IN (IF Len(segment) < 2 THEN <<>> ELSE AuthorOfSegment(segment))
          \o AuthorsOfSegments(Tail(segments))

RECURSIVE AuthorsOfCandidates(_)
AuthorsOfCandidates(candidates) ==
  IF candidates = <<>> THEN <<>>
  ELSE AuthorsOfSegments(Split(Head(candidates), AuthorSeparators))
       \o AuthorsOfCandidates(Tail(candidates))

\* [k.strip() for k in re.split(seps, text) if k.strip()]
RECURSIVE StripNonEmpty(_)
StripNonEmpty(parts) ==
  IF parts = <<>> THEN <<>>
  ELSE (IF Strip(Head(parts)) = <<>> THEN <<>> ELSE <<Strip(Head(parts))>>)
       \o StripNonEmpty(Tail(parts))

\* the keywords branch of the abstract loop, for one paragraph
DocxKeywordsOf(text) ==
  LET part0 == IF Find(text, ":") # 0 THEN Strip(AfterFirst(text, ":"))
               ELSE IF Find(text, "-") # 0 THEN Strip(AfterFirst(text, "-"))
               ELSE IF Find(text, "U+2014") # 0 THEN Strip(AfterFirst(text, "U+2014"))
               ELSE <<>>
      part1 == IF part0 = <<>> THEN text ELSE part0
      part2 == IF EndsWith(part1, <<".">>) THEN SubSeq(part1, 1, Len(part1) - 1) ELSE part1
  IN StripNonEmpty(Split(part2, {";", ",", "U+FF0C", "U+FF1B"}))

\* the abstract/keywords loop: collecting_keywords and
\* keywords_section_consumed are never set, so their branches do nothing
RECURSIVE AbstractScan(_, _, _)
AbstractScan(paras, collecting_abstract, abstract_lines) ==
  IF paras = <<>> THEN [abstract_lines |-> abstract_lines, keywords |-> <<>>]
  ELSE LET text == Strip(Head(paras).text)
           body == IF Find(text, ":") # 0 THEN Strip(AfterFirst(text, ":")) ELSE <<>>
       IN IF text = <<>> THEN AbstractScan(Tail(paras), collecting_abstract, abstract_lines)
          ELSE IF AbstractMarker(text)
            THEN AbstractScan(Tail(paras), TRUE,
                              IF body # <<>> THEN Append(abstract_lines, body) ELSE abstract_lines)
          ELSE IF KeywordsMarker(text)
            THEN [abstract_lines |-> abstract_lines, keywords |-> DocxKeywordsOf(text)]
          ELSE IF collecting_abstract
            THEN AbstractScan(Tail(paras), TRUE, Append(abstract_lines, text))
          ELSE AbstractScan(Tail(paras), collecting_abstract, abstract_lines)

\* document.paragraphs: the paragraphs of the body, in order
RECURSIVE Paragraphs(_)
Paragraphs(doc) ==
  IF doc = <<>> THEN <<>>
  ELSE (IF Head(doc).kind = "p" THEN <<Head(doc)>> ELSE <<>>) \o Paragraphs(Tail(doc))

DocxMetadataFields(doc) ==
  LET paras == Paragraphs(doc)
      title == DocxTitle(paras)
      found == AbstractScan(paras, FALSE, <<>>)
  IN [title |-> title,
      authors |-> AuthorsOfCandidates(AuthorCandidates(paras, title)),
      abstract |-> Strip(JoinLines(found.abstract_lines)),
      keywords |-> found.keywords]

\* the first mandatory field that is empty, "" when none is
MissingField(m) ==
  IF m.title = <<>> THEN "title"
  ELSE IF m.authors = <<>> THEN "authors"
  ELSE IF m.abstract = <<>> THEN "abstract"
  ELSE ""

\* _parse_metadata(document) of docx_parser.py: the metadata, and the field
\* whose absence makes it raise ValueError ("" when it returns)
DocxParseMetadata(doc) ==
  LET m == DocxMetadataFields(doc)
  IN [metadata |-> m, missing |-> MissingField(m)]

----------------------------------------------------------------------------
(* docx: images *)

\* the orders in which list(set(embed_ids)) can enumerate a set
Perms(S) ==
  {f \in [1..Cardinality(S) -> S] : \A i, j \in 1..Cardinality(S) : i # j => f[i] # f[j]}

\* the relationship ids of a paragraph in the order the two loops of
\* _extract_images_from_paragraph can visit them
RECURSIVE RidOrders(_)
RidOrders(runs) ==
  IF runs = <<>> THEN {<<>>}
  ELSE {p \o r : p \in Perms(Head(runs)), r \in RidOrders(Tail(runs))}

\* the ids that resolve to a part whose content type starts with "image/"
IsImageRid(rid) == rid \in DOMAIN RelatedParts /\ RelatedParts[rid][1] = "image"
RECURSIVE ImageRids(_)
ImageRids(order) ==
  IF order = <<>> THEN <<>>
  ELSE (IF IsImageRid(Head(order)) THEN <<Head(order)>> ELSE <<>>) \o ImageRids(Tail(order))

\* ext_map.get(image_part.content_type, ".png")
ImageExt(content_type) ==
  IF content_type = <<"image", "png">> THEN ".png"
  ELSE IF content_type \in {<<"image", "jpeg">>, <<"image", "jpg">>} THEN ".jpg"
  ELSE IF content_type = <<"image", "gif">> THEN ".gif"
  ELSE IF content_type = <<"image", "bmp">> THEN ".bmp"
  ELSE IF content_type = <<"image", "tiff">> THEN ".tiff"
  ELSE ".png"

\* a mutant of _save_image: every file gets the same name instead of a
\* drawn one
SaveImageFixedName(rid, uuid) ==
  [dir |-> "parsed_images", name |-> 1, ext |-> ImageExt(RelatedParts[rid])]

\* _save_image(image_part): the relative path parsed_images/<uuid><ext>
_save_image(rid, uuid) ==
  [dir |-> "parsed_images", name |-> uuid, ext |-> ImageExt(RelatedParts[rid])]

\* _extract_images_from_paragraph(para), for one visiting order and one
\* draw of uuid4 per saved image
_extract_images_from_paragraph(order, uuids, src) ==
  LET rids == ImageRids(order)
  IN [k \in 1..Len(rids) |->
        [type |-> "image", path |-> _save_image(rids[k], uuids[k]), caption |-> <<>>,
         src |-> src]]

\* lines 447-452 of parse_docx_to_json: each image takes the caption
\* paragraph that ends the content list, if any, and is appended
RECURSIVE AppendImages(_, _)
AppendImages(content_list, images) ==
  IF images = <<>> THEN content_list
  ELSE LET popped == _pop_caption_candidate(content_list)
           img == IF popped.caption # <<>>
                  THEN [Head(images) EXCEPT !.caption = popped.caption]
                  ELSE Head(images)
       IN AppendImages(Append(popped.content, img), Tail(images))

----------------------------------------------------------------------------
(* docx: the loop body of parse_docx_to_json *)

\* a mutant of flush_list: the block is emitted and the items stay in the
\* buffer
FlushListKeepItems(st) ==
  IF st.current_list_items # <<>>
  THEN [st EXCEPT !.content = Append(st.content,
                     [type |-> "list", ordered |-> TRUE, items |-> st.current_list_items,
                      src |-> st.current_list_items[1].src])]
  ELSE st

\* flush_list(): st holds content, current_list_items, current_list_num_id
flush_list(st) ==
  IF st.current_list_items # <<>>
  THEN [st EXCEPT !.content = Append(st.content,
                     [type |-> "list", ordered |-> TRUE, items |-> st.current_list_items,
                      src |-> st.current_list_items[1].src]),
                  !.current_list_items = <<>>,
                  !.current_list_num_id = None]
  ELSE st

\* re.match(r"^\[(\d+)\]|^(\d+)[\.))]|\((\d+)\)", text): the id, "" when none
DocxBibId(text) ==
  LET n1 == Span(Drop(text, 1), Digit)
      n2 == Span(text, Digit)
  IN IF text # <<>> /\ text[1] = "[" /\ n1 >= 1 /\ Len(text) >= n1 + 2 /\ text[n1 + 2] = "]"
       THEN SubSeq(text, 2, n1 + 1)
     ELSE IF n2 >= 1 /\ Len(text) >= n2 + 1 /\ text[n2 + 1] \in {".", ")"}
       THEN SubSeq(text, 1, n2)
     ELSE IF text # <<>> /\ text[1] = "(" /\ n1 >= 1 /\ Len(text) >= n1 + 2 /\ text[n1 + 2] = ")"
       THEN SubSeq(text, 2, n1 + 1)
     ELSE <<>>

\* a mutant of the entry: the text of the reference is left out
BibEntryWithoutRaw(id, raw) ==
  [id |-> id, type |-> "misc", authors |-> <<>>, title |-> <<>>, venue |-> <<>>,
   year |-> <<>>, raw |-> <<>>]

BibEntry(id, raw) ==
  [id |-> id, type |-> "misc", authors |-> <<>>, title |-> <<>>, venue |-> <<>>,
   year |-> <<>>, raw |-> raw]

ReferencesMarker(text) ==
  \/ StartsWith(LowerStr(text), <<"r","e","f","e","r","e","n","c","e","s">>)
  \/ StartsWith(text, <<"U+53C2","U+8003","U+6587","U+732E">>)

\* lines 454-516: a paragraph after its images were appended
DocxParagraphText(st, para, src) ==
  LET text == Strip(para.text)
      list_info == _get_list_info(para)
      manual_list_item == _detect_manual_list_item(text)
      manual_num_id == -1
      content_entry == _paragraph_to_content(para, src)
  IN IF text = <<>> THEN st
     ELSE IF ReferencesMarker(text)
       THEN [flush_list(st) EXCEPT !.bibliography_started = TRUE]
     ELSE IF st.bibliography_started
       THEN [st EXCEPT !.bibliography = Append(@, BibEntry(DocxBibId(text), text))]
     ELSE IF list_info # None
       THEN LET f == IF st.current_list_num_id # None
                        /\ st.current_list_num_id # Some(list_info[1].num_id)
                     THEN flush_list(st) ELSE st
            IN [f EXCEPT !.current_list_num_id = Some(list_info[1].num_id),
                         !.current_list_items =
                            Append(@, [text |-> text, level |-> list_info[1].level, src |-> src])]
     ELSE IF manual_list_item # None
       THEN LET f == IF st.current_list_num_id # None
                        /\ st.current_list_num_id # Some(manual_num_id)
                     THEN flush_list(st) ELSE st
            IN [f EXCEPT !.current_list_num_id = Some(manual_num_id),
                         !.current_list_items =
                            Append(@, [text |-> manual_list_item[1].text, level |-> 0,
                                       number |-> manual_list_item[1].number, src |-> src])]
     ELSE LET f == flush_list(st)
          IN IF content_entry # None
             THEN [f EXCEPT !.content = Append(@, content_entry[1])] ELSE f

\* lines 444-516: one Paragraph of the body
DocxParagraph(st, para, src, images) ==
  DocxParagraphText([st EXCEPT !.content = AppendImages(@, images)], para, src)

\* lines 518-525: one Table of the body
DocxTable(st, table, src) ==
  LET f == flush_list(st)
      popped == _pop_caption_candidate(f.content)
      table_entry == _table_to_content(table, src)
  IN [f EXCEPT !.content =
        Append(popped.content,
               IF popped.caption # <<>>
               THEN [table_entry EXCEPT !.caption = popped.caption] ELSE table_entry)]

\* a mutant of lines 527-541: the list is flushed and no placeholder entry is
\* appended
DocxEndNoPlaceholder(st) == flush_list(st)

\* lines 527-541: the trailing flush and the placeholder entry
DocxEnd(st) ==
  LET f == flush_list(st)
  IN IF f.bibliography = <<>>
     THEN [f EXCEPT !.bibliography = <<BibEntry(<<>>, <<>>)>>] ELSE f

----------------------------------------------------------------------------
(* plain text: predicates of txt_parser.py *)

Letters == {UpperAlpha[i] : i \in AlphaIdx} \cup {LowerAlpha[i] : i \in AlphaIdx}
\* the CJK letters that occur in the inputs and patterns of the model
CJKLetters == {"U+8868", "U+56FE", "U+6458", "U+8981", "U+5173", "U+952E", "U+8BCD", "U+53C2", "U+8003", "U+6587", "U+732E", "U+4F5C", "U+8005",
               "U+6807", "U+9898", "U+7ED3", "U+679C"}
\* \w
WordChars == Letters \cup Digit \cup {"_"} \cup CJKLetters

SubStr(s, i, j) == SubSeq(s, i, j)
\* the text of the line of s that starts at position i (up to the newline)
LineAt(s, i) == SubSeq(s, i, i + SpanNot(Drop(s, i - 1), {"\n"}) - 1)
IsLineStart(s, i) == i = 1 \/ s[i - 1] = "\n"

ReferencesWords == { <<"r","e","f","e","r","e","n","c","e","s">>, <<"U+53C2","U+8003","U+6587","U+732E">> }

\* whether the pattern ^(?:U+53C2U+8003U+6587U+732E|References)\s*$ of _split_sections
\* matches at position i of text
ReferencesLineAt(text, i) ==
  /\ IsLineStart(text, i)
  /\ \E w \in ReferencesWords :
       /\ StartsWith(LowerStr(LineAt(text, i)), w)
       /\ Strip(Drop(LineAt(text, i), Len(w))) = <<>>

\* _split_sections(text): the main text and the bibliography text
_split_sections(text) ==
  LET hits == {i \in 1..Len(text) : ReferencesLineAt(text, i)}
      start == CHOOSE i \in hits : \A j \in hits : i <= j
  IN IF hits = {} THEN [main |-> Strip(text), bibliography |-> <<>>]
     ELSE [main |-> Strip(SubSeq(text, 1, start - 1)),
           bibliography |-> Strip(Drop(text, start - 1 + Len(Strip(LineAt(text, start)))))]

NoiseMaxLen == 100

\* re.search(r"\b\d{4}\b.*\b\d+\s*$", stripped)
HeaderLike(s) ==
  LET n == Len(s)
      tail == n - Span([k \in 1..n |-> s[n + 1 - k]], Digit) + 1
  IN /\ tail <= n
     /\ tail > 1 /\ s[tail - 1] \notin WordChars
     /\ \E i \in 1..(tail - 5) :
          /\ \A k \in i..(i + 3) : s[k] \in Digit
          /\ (i = 1 \/ s[i - 1] \notin WordChars)
          /\ s[i + 4] \notin WordChars

\* a mutant of _is_noise_line: without the rule for page numbers
IsNoiseLineKeepDigits(line) ==
  LET stripped == Strip(line)
  IN IF stripped = <<>> THEN FALSE
     ELSE \/ (Len(stripped) >= 5 /\ Span(stripped, {"-", "=", "_"}) = Len(stripped))
          \/ (HeaderLike(stripped) /\ Len(stripped) < NoiseMaxLen)

\* _is_noise_line(line)
_is_noise_line(line) ==
  LET stripped == Strip(line)
  IN IF stripped = <<>> THEN FALSE
     ELSE \/ Span(stripped, Digit) = Len(stripped)
          \/ (Len(stripped) >= 5 /\ Span(stripped, {"-", "=", "_"}) = Len(stripped))
          \/ (HeaderLike(stripped) /\ Len(stripped) < NoiseMaxLen)

\* the length of the list marker ^\s*(?:[-*U+2022]|\d+[\.\)]|\([0-9a-zA-Z]+\))\s+
\* at the start of line, 0 when there is none
ListMarkerLen(line) ==
  LET w == Span(line, Space)
      t == Drop(line, w)
      d == Span(t, Digit)
      a == Span(Drop(t, 1), Letters \cup Digit)
      m == IF t # <<>> /\ t[1] \in {"-", "*", "U+2022"} THEN 1
           ELSE IF d >= 1 /\ Len(t) > d /\ t[d + 1] \in {".", ")"} THEN d + 1
           ELSE IF t # <<>> /\ t[1] = "(" /\ a >= 1 /\ Len(t) >= a + 2 /\ t[a + 2] = ")" THEN a + 2
           ELSE 0
      sp == Span(Drop(t, m), Space)
  IN IF m >= 1 /\ sp >= 1 THEN w + m + sp ELSE 0

\* _is_list_line(line)
_is_list_line(line) == ListMarkerLen(line) > 0

\* three backticks
Fence == <<"U+0060", "U+0060", "U+0060">>
\* _is_code_fence(line)
_is_code_fence(line) == StartsWith(Strip(line), Fence)
\* _extract_code_language(line)
_extract_code_language(line) ==
  LET t == Drop(Strip(line), 3) IN SubSeq(t, 1, Span(t, WordChars))

\* _is_caption(text): ^\s*(?:Figure|Fig\.|Table|U+8868|U+56FE)\s*\d+, re.IGNORECASE
TxtCaptionWords ==
  { <<"f","i","g","u","r","e">>, <<"f","i","g",".">>, <<"t","a","b","l","e">>, <<"U+8868">>, <<"U+56FE">> }
_is_caption(text) ==
  LET t == LStrip(text)
  IN \E w \in TxtCaptionWords :
       /\ StartsWith(LowerStr(t), w)
       /\ Span(LStrip(Drop(t, Len(w))), Digit) >= 1

\* _is_blockquote_line(line)
_is_blockquote_line(line) == StartsWith(Strip(line), <<">">>)

\* _is_ascii_table(text)
_is_ascii_table(text) ==
  LET lines == Split(text, {"\n"})
      pipe_lines == Cardinality({i \in 1..Len(lines) : Find(lines[i], "|") # 0})
      separator_lines ==
        Cardinality({i \in 1..Len(lines) : Find(lines[i], "+") # 0 /\ Find(lines[i], "-") # 0})
  IN Len(lines) >= 2 /\ pipe_lines >= 2 /\ separator_lines >= 1

\* str.isupper(): some cased character, and no lower-case one
IsUpperStr(s) == (\E i \in 1..Len(s) : IsUpper(s[i])) /\ (\A i \in 1..Len(s) : ~IsLower(s[i]))

CountChar(s, c) == Cardinality({i \in 1..Len(s) : s[i] = c})

HeadingMaxLen == 80

\* _guess_heading_level(text) of txt_parser.py: (is heading, level, number)
TxtGuessHeadingLevel(text) ==
  LET stripped == Strip(text)
      n == DottedLen(stripped)
      w == Span(Drop(stripped, n), Space)
      r == Span(stripped, RomanSet)
      rw == Span(Drop(stripped, r + 1), Space)
  IN IF n >= 1 /\ w >= 1 /\ Len(stripped) > n + w /\ stripped[n + w + 1] # "\n"
       THEN [is_heading |-> TRUE, level |-> CountChar(SubSeq(stripped, 1, n), ".") + 1,
             number |-> SubSeq(stripped, 1, n)]
     ELSE IF /\ r >= 1 /\ Len(stripped) > r /\ stripped[r + 1] = "."
             /\ rw >= 1 /\ Len(stripped) > r + 1 + rw /\ stripped[r + 1 + rw + 1] # "\n"
             /\ IsUpperStr(stripped)
       THEN [is_heading |-> TRUE, level |-> 1, number |-> SubSeq(stripped, 1, r)]
     ELSE IF /\ Len(stripped) < HeadingMaxLen /\ IsUpperStr(stripped)
             /\ ~(stripped # <<>> /\ stripped[Len(stripped)] \in {".", "!", "?"})
       THEN [is_heading |-> TRUE, level |-> 1, number |-> <<>>]
     ELSE [is_heading |-> FALSE, level |-> 0, number |-> <<>>]

\* _detect_formula_block(text) of txt_parser.py and md_parser.py
DetectFormulaBlock(raw) ==
  LET text == Strip(raw)
      dollars == <<"$", "$">>
      open == <<"\\", "[">>
      close == <<"\\", "]">>
  IN IF Len(text) >= 4 /\ StartsWith(text, dollars) /\ EndsWith(text, dollars)
       THEN Some(Strip(SubSeq(text, 3, Len(text) - 2)))
     ELSE IF Len(text) >= 4 /\ StartsWith(text, open) /\ EndsWith(text, close)
       THEN Some(Strip(SubSeq(text, 3, Len(text) - 2)))
     ELSE None

\* the matches of (?<!\$)\$(?!\$)([^$]+)\$(?!\$) in text from position i on
RECURSIVE InlineFormulasFrom(_, _)
InlineFormulasFrom(text, i) ==
  LET starts == {j \in i..Len(text) : text[j] = "$"}
      k == Min(starts)
      n == SpanNot(Drop(text, k), {"$"})
      hit == /\ (k = 1 \/ text[k - 1] # "$")
             /\ n >= 1
             /\ Len(text) >= k + n + 1
             /\ (Len(text) = k + n + 1 \/ text[k + n + 2] # "$")
  IN IF starts = {} THEN <<>>
     ELSE IF hit THEN <<Strip(SubSeq(text, k + 1, k + n))>> \o InlineFormulasFrom(text, k + n + 2)
     ELSE InlineFormulasFrom(text, k + 1)
\* _extract_inline_formulas(text) of txt_parser.py and md_parser.py
ExtractInlineFormulas(text) == InlineFormulasFrom(text, 1)

\* the matches of \[[0-9,\-\s]+\] in text from position i on; with skipTask the
\* lookahead (?![\sxX]\]) of md_parser.py is applied
RECURSIVE NumericMarkersFrom(_, _, _)
NumericMarkersFrom(text, i, skipTask) ==
  LET starts == {j \in i..Len(text) : text[j] = "["}
      k == Min(starts)
      n == Span(Drop(text, k), Digit \cup {",", "-"} \cup Space)
      task == Len(text) >= k + 2 /\ text[k + 1] \in Space \cup {"x", "X"} /\ text[k + 2] = "]"
      hit == /\ n >= 1
             /\ Len(text) >= k + n + 1 /\ text[k + n + 1] = "]"
             /\ ~(skipTask /\ task)
  IN IF starts = {} THEN <<>>
     ELSE IF hit THEN <<SubSeq(text, k, k + n + 1)>> \o NumericMarkersFrom(text, k + n + 2, skipTask)
     ELSE NumericMarkersFrom(text, k + 1, skipTask)

\* the matches of \([A-Z][A-Za-z\s,\.]+\d{4}[a-z]?\) in text from position i on
RECURSIVE AuthorYearFrom(_, _)
AuthorYearFrom(text, i) ==
  LET starts == {j \in i..Len(text) : text[j] = "("}
      o == Min(starts)
      n == Span(Drop(text, o + 1), Letters \cup Space \cup {",", "."})
      y == o + 1 + n
      low == IF Len(text) >= y + 5 /\ IsLower(text[y + 5]) THEN 1 ELSE 0
      hit == /\ Len(text) >= o + 1 /\ IsUpper(text[o + 1])
             /\ n >= 1
             /\ Len(text) >= y + 4 /\ \A k \in (y + 1)..(y + 4) : text[k] \in Digit
             /\ Len(text) >= y + 5 + low /\ text[y + 5 + low] = ")"
  IN IF starts = {} THEN <<>>
     ELSE IF hit THEN <<SubSeq(text, o, y + 5 + low)>> \o AuthorYearFrom(text, y + 6 + low)
     ELSE AuthorYearFrom(text, o + 1)

\* _extract_reference_markers(text) of txt_parser.py
TxtExtractReferenceMarkers(text) == NumericMarkersFrom(text, 1, FALSE) \o AuthorYearFrom(text, 1)
\* _extract_reference_markers(text) of md_parser.py
MdExtractReferenceMarkers(text) == NumericMarkersFrom(text, 1, TRUE) \o AuthorYearFrom(text, 1)

----------------------------------------------------------------------------
(* plain text: _parse_metadata *)

\* position after the first occurrence of word in text (compared in lower case
\* when ignoreCase), 0 when there is none
AfterWord(text, word, ignoreCase) ==
  LET t == IF ignoreCase THEN LowerStr(text) ELSE text
      hits == {i \in 1..(Len(text) - Len(word) + 1) : SubSeq(t, i, i + Len(word) - 1) = word}
  IN IF hits = {} THEN 0 ELSE Min(hits) + Len(word)

\* position after the first match of U+6458\s*U+8981 in text, 0 when there is none
AfterZhAbstract(text) ==
  LET hits == {i \in 1..Len(text) :
                 /\ text[i] = "U+6458"
                 /\ Len(text) > i + Span(Drop(text, i), Space)
                 /\ text[i + Span(Drop(text, i), Space) + 1] = "U+8981"}
  IN IF hits = {} THEN 0 ELSE Min(hits) + Span(Drop(text, Min(hits)), Space) + 2

\* \n\s*\n at position q
BlankLineAt(text, q) ==
  /\ text[q] = "\n"
  /\ LET w == Span(Drop(text, q), Space) IN \E k \in (q + 1)..(q + w) : text[k] = "\n"
\* \n followed by word at position q
LineWordAt(text, q, word, ignoreCase) ==
  /\ text[q] = "\n"
  /\ StartsWith(IF ignoreCase THEN LowerStr(Drop(text, q)) ELSE Drop(text, q), word)
\* \n\d+\.\s at position q
NumberedLineAt(text, q) ==
  /\ text[q] = "\n"
  /\ LET r == Drop(text, q)
         d == Span(r, Digit)
     IN d >= 1 /\ Len(r) >= d + 2 /\ r[d + 1] = "." /\ r[d + 2] \in Space

\* \s*[:U+FF1A]?\s*(.*?)(?:terminator|\Z) matched from position m on: the
\* captured group, stripped; Term(text, q) says a terminator matches at q
Section(text, m, Term(_, _)) ==
  LET r1 == Drop(text, m - 1)
      a == Span(r1, Space)
      r2 == Drop(r1, a)
      c == IF r2 # <<>> /\ r2[1] \in {":", "U+FF1A"} THEN 1 ELSE 0
      b == Span(Drop(r2, c), Space)
      start == m + a + c + b
      stops == {q \in start..Len(text) : Term(text, q)} \cup {Len(text) + 1}
  IN Strip(SubSeq(text, start, Min(stops) - 1))

KeywordsWord == <<"k","e","y","w","o","r","d","s">>
ZhKeywordsWord == <<"U+5173","U+952E","U+8BCD">>
AbstractWord == <<"a","b","s","t","r","a","c","t">>

ZhAbstractEnd(text, q) ==
  \/ BlankLineAt(text, q)
  \/ LineWordAt(text, q, ZhKeywordsWord, FALSE)
  \/ LineWordAt(text, q, <<"A","b","s","t","r","a","c","t">>, FALSE)
EnAbstractEnd(text, q) ==
  \/ BlankLineAt(text, q)
  \/ LineWordAt(text, q, KeywordsWord, TRUE)
  \/ LineWordAt(text, q, ZhKeywordsWord, TRUE)
ZhKeywordsEnd(text, q) ==
  \/ BlankLineAt(text, q)
  \/ LineWordAt(text, q, <<"K","e","y","w","o","r","d","s">>, FALSE)
  \/ NumberedLineAt(text, q)
EnKeywordsEnd(text, q) ==
  \/ BlankLineAt(text, q)
  \/ LineWordAt(text, q, ZhKeywordsWord, TRUE)
  \/ NumberedLineAt(text, q)

AuthorKeys == { <<"U+4F5C","U+8005">>, <<"A","u","t","h","o","r">>, <<"A","u","t","h","o","r","s">> }

\* the first of lines[1:5] that contains an author key, "" when none does
RECURSIVE AuthorLine(_)
AuthorLine(lines) ==
  IF lines = <<>> THEN <<>>
  ELSE IF \E k \in AuthorKeys : Contains(Head(lines), k) THEN Head(lines)
  ELSE AuthorLine(Tail(lines))

\* length of the match of (U+4F5CU+8005|Author|Authors)\s*[:U+FF1A] at the start of s, 0 if none
AuthorLabelLen(s) ==
  LET fits == {k \in AuthorKeys :
                 /\ StartsWith(s, k)
                 /\ LET r == Drop(s, Len(k))
                    IN Len(r) > Span(r, Space) /\ r[Span(r, Space) + 1] \in {":", "U+FF1A"}}
      k == CHOOSE x \in fits : \A y \in fits : Len(x) <= Len(y)
  IN IF fits = {} THEN 0 ELSE Len(k) + Span(Drop(s, Len(k)), Space) + 1

\* re.sub(r"(U+4F5CU+8005|Author|Authors)\s*[:U+FF1A]", "", s)
RECURSIVE RemoveAuthorLabels(_)
RemoveAuthorLabels(s) ==
  IF s = <<>> THEN <<>>
  ELSE IF AuthorLabelLen(s) > 0 THEN RemoveAuthorLabels(Drop(s, AuthorLabelLen(s)))
  ELSE <<Head(s)>> \o RemoveAuthorLabels(Tail(s))

NameSeparators == {";", ",", "U+FF0C", "U+3001"}

RECURSIVE NamesToAuthors(_)
NamesToAuthors(names) ==
  IF names = <<>> THEN <<>>
  ELSE <<[name |-> Head(names), affiliation |-> <<>>, email |-> <<>>]>>
       \o NamesToAuthors(Tail(names))

\* _parse_metadata(lines, full_text) of txt_parser.py; lines are the lines of
\* the file as readlines() returns them
TxtParseMetadata(lines, full_text) ==
  LET author_line == AuthorLine(SubSeq(lines, 2, IF Len(lines) < 5 THEN Len(lines) ELSE 5))
      zh == AfterZhAbstract(full_text)
      en == AfterWord(full_text, AbstractWord, TRUE)
      kzh == AfterWord(full_text, ZhKeywordsWord, FALSE)
      ken == AfterWord(full_text, KeywordsWord, TRUE)
      abstract_zh == IF zh = 0 THEN <<>> ELSE Section(full_text, zh, ZhAbstractEnd)
      abstract_en == IF en = 0 THEN <<>> ELSE Section(full_text, en, EnAbstractEnd)
      keywords_zh == IF kzh = 0 THEN <<>>
                     ELSE StripNonEmpty(Split(Section(full_text, kzh, ZhKeywordsEnd), NameSeparators))
      keywords_en == IF ken = 0 THEN <<>>
                     ELSE StripNonEmpty(Split(Section(full_text, ken, EnKeywordsEnd), NameSeparators))
  IN [title |-> IF lines = <<>> THEN <<>> ELSE Strip(lines[1]),
      authors |-> IF author_line = <<>> THEN <<>>
                  ELSE NamesToAuthors(StripNonEmpty(
                         Split(Strip(RemoveAuthorLabels(author_line)), NameSeparators))),
      abstract |-> IF abstract_en # <<>> THEN abstract_en ELSE abstract_zh,
      abstract_zh |-> abstract_zh,
      abstract_en |-> abstract_en,
      keywords |-> IF keywords_en # <<>> THEN keywords_en ELSE keywords_zh,
      keywords_zh |-> keywords_zh,
      keywords_en |-> keywords_en]

----------------------------------------------------------------------------
(* plain text: _parse_content and _parse_bibliography *)

LStripChar(s, c) == Drop(s, Span(s, {c}))

RECURSIVE Blocks(_, _, _)
\* one block of the given type and field per element of values
Blocks(type, values, field) ==
  IF values = <<>> THEN <<>>
  ELSE <<[type |-> type] @@ (field :> Head(values))>> \o Blocks(type, Tail(values), field)

\* the blocks flush_buffer appends for a buffer that is not of a list, a code
\* block or a blockquote (lines 271-308)
TxtClassify(text) ==
  LET formula == DetectFormulaBlock(text)
      is_heading == TxtGuessHeadingLevel(text)
  IN IF _is_ascii_table(text) THEN <<[type |-> "table", format |-> "ascii", raw |-> text]>>
     ELSE IF formula # None /\ formula[1] # <<>>
       THEN <<[type |-> "formula_block", latex |-> formula[1]]>>
     ELSE IF _is_caption(text) THEN <<[type |-> "caption", text |-> text]>>
     ELSE IF is_heading.is_heading
       THEN <<[type |-> "heading", level |-> is_heading.level,
               number |-> is_heading.number, text |-> text]>>
     ELSE <<[type |-> "paragraph", text |-> text]>>
          \o Blocks("formula_inline", ExtractInlineFormulas(text), "latex")
          \o Blocks("reference_marker", TxtExtractReferenceMarkers(text), "marker")

\* re.match(r"^\s*\d+[\.\)]", first_line)
OrderedMarker(line) ==
  LET t == LStrip(line)
      d == Span(t, Digit)
  IN d >= 1 /\ Len(t) > d /\ t[d + 1] \in {".", ")"}

\* flush_buffer() of _parse_content, on the locals st of _parse_content
flush_buffer(st) ==
  LET text == Strip(JoinLines(st.buffer))
      new ==
        IF st.current_type = Some("list_item")
          THEN <<[type |-> "list", ordered |-> OrderedMarker(st.buffer[1]),
                  items |-> [k \in 1..Len(st.buffer) |->
                               Drop(st.buffer[k], ListMarkerLen(st.buffer[k]))]]>>
        ELSE IF st.current_type = Some("code")
          THEN <<[type |-> "code", language |-> st.code_language, text |-> text]>>
        ELSE IF st.current_type = Some("blockquote")
          THEN <<[type |-> "quote",
                  text |-> JoinLines([k \in 1..Len(st.buffer) |->
                                        Strip(LStripChar(st.buffer[k], ">"))])]>>
        ELSE TxtClassify(text)
  IN IF st.buffer = <<>> THEN st
     ELSE IF text = <<>> THEN [st EXCEPT !.buffer = <<>>, !.current_type = None]
     ELSE [st EXCEPT !.content = st.content \o new,
                     !.buffer = <<>>,
                     !.current_type = None,
                     !.code_language = IF st.current_type = Some("code")
                                       THEN <<>> ELSE st.code_language]

\* a mutant of buffer.append(line): the line replaces the buffer
PushAlone(st, line) == [st EXCEPT !.buffer = <<line>>]

Push(st, line) == [st EXCEPT !.buffer = Append(st.buffer, line)]

\* lines 314-377: the body of the loop over the lines of the main text
TxtLineStep(st, line) ==
  LET f == flush_buffer(st)
      indented == StartsWith(line, <<" ", " ", " ", " ">>) \/ StartsWith(line, <<"\t">>)
      g == IF st.current_type \in {Some("list_item"), Some("blockquote")} THEN f ELSE st
  IN IF _is_noise_line(line) THEN st
     ELSE IF _is_code_fence(line)
       THEN IF st.in_code_block THEN [f EXCEPT !.in_code_block = FALSE]
            ELSE [f EXCEPT !.in_code_block = TRUE,
                           !.current_type = Some("code"),
                           !.code_language = _extract_code_language(line)]
     ELSE IF st.in_code_block THEN Push(st, line)
     ELSE IF Strip(line) = <<>> THEN f
     ELSE IF _is_blockquote_line(line)
       THEN IF st.current_type # Some("blockquote")
            THEN Push([f EXCEPT !.current_type = Some("blockquote")], line)
            ELSE Push(st, line)
     ELSE IF _is_list_line(line)
       THEN IF st.current_type # Some("list_item")
            THEN Push([f EXCEPT !.current_type = Some("list_item")], line)
            ELSE Push(st, line)
     ELSE IF indented
       THEN IF st.current_type # Some("code")
            THEN Push([f EXCEPT !.current_type = Some("code"), !.code_language = <<>>], line)
            ELSE Push(st, line)
     ELSE Push([g EXCEPT !.current_type =
                           IF g.current_type = None THEN Some("paragraph") ELSE g.current_type],
               line)

\* re.split(r"\n\s*\n", text)
RECURSIVE SplitBlank(_)
SplitBlank(text) ==
  LET hits == {i \in 1..Len(text) : BlankLineAt(text, i)}
      i == Min(hits)
      w == Span(Drop(text, i), Space)
      e == CHOOSE k \in (i + 1)..(i + w) :
             text[k] = "\n" /\ \A j \in (k + 1)..(i + w) : text[j] # "\n"
  IN IF hits = {} THEN <<text>>
     ELSE <<SubSeq(text, 1, i - 1)>> \o SplitBlank(Drop(text, e))

\* length of the match of \d+(?:[,\-]\d+)* at the start of s
RECURSIVE DigitListLen(_)
DigitListLen(s) ==
  LET d == Span(s, Digit)
      more == IF d >= 1 /\ Len(s) > d /\ s[d + 1] \in {",", "-"}
              THEN DigitListLen(Drop(s, d + 1)) ELSE 0
  IN IF d = 0 THEN 0 ELSE IF more > 0 THEN d + 1 + more ELSE d

\* re.match(r"^\[(\d+(?:[,\-]\d+)*)\]|^(\d+)[\.\)]|^\((\d+)\)", s): whether it
\* matches and the first group that is not None
EntryStart(s) ==
  LET l == DigitListLen(Drop(s, 1))
      n1 == Span(Drop(s, 1), Digit)
      n2 == Span(s, Digit)
  IN IF s # <<>> /\ s[1] = "[" /\ l >= 1 /\ Len(s) >= l + 2 /\ s[l + 2] = "]"
       THEN [match |-> TRUE, id |-> SubSeq(s, 2, l + 1)]
     ELSE IF n2 >= 1 /\ Len(s) >= n2 + 1 /\ s[n2 + 1] \in {".", ")"}
       THEN [match |-> TRUE, id |-> SubSeq(s, 1, n2)]
     ELSE IF s # <<>> /\ s[1] = "(" /\ n1 >= 1 /\ Len(s) >= n1 + 2 /\ s[n1 + 2] = ")"
       THEN [match |-> TRUE, id |-> SubSeq(s, 2, n1 + 1)]
     ELSE [match |-> FALSE, id |-> <<>>]

BibFallbackLen == 100

\* lines 399-416: the entries found by splitting at numbered lines; acc is
\* [items, current_entry]
RECURSIVE SplitAtNumbers(_, _)
SplitAtNumbers(lines, acc) ==
  IF lines = <<>>
    THEN IF acc.current_entry # <<>>
         THEN Append(acc.items, JoinLines(acc.current_entry)) ELSE acc.items
  ELSE IF EntryStart(Strip(Head(lines))).match
    THEN SplitAtNumbers(Tail(lines),
           [items |-> IF acc.current_entry # <<>>
                      THEN Append(acc.items, JoinLines(acc.current_entry)) ELSE acc.items,
            current_entry |-> <<Head(lines)>>])
  ELSE IF acc.current_entry # <<>> \/ Strip(Head(lines)) # <<>>
    THEN SplitAtNumbers(Tail(lines),
           [acc EXCEPT !.current_entry = Append(acc.current_entry, Head(lines))])
  ELSE SplitAtNumbers(Tail(lines), acc)

\* lines 419-441: one entry per item that is not blank
RECURSIVE EntriesOf(_)
EntriesOf(items) ==
  IF items = <<>> THEN <<>>
  ELSE LET entry == Strip(Head(items))
       IN (IF entry = <<>> THEN <<>> ELSE <<BibEntry(EntryStart(entry).id, entry)>>)
          \o EntriesOf(Tail(items))

\* _parse_bibliography(text) of txt_parser.py
TxtParseBibliography(text) ==
  LET items == SplitBlank(text)
  IN IF text = <<>> THEN <<>>
     ELSE IF Len(items) = 1 /\ Len(text) > BibFallbackLen
       THEN EntriesOf(SplitAtNumbers(Split(text, {"\n"}), [items |-> items, current_entry |-> <<>>]))
     ELSE EntriesOf(items)

\* lines 456-467 of parse_txt_to_json
TxtPlaceholder(entries) ==
  IF entries = <<>> THEN <<BibEntry(<<>>, <<>>)>> ELSE entries

----------------------------------------------------------------------------
(* plain text: the input file, as its lines without the line ends *)

TxtTitleLine == <<"M","y"," ","T","i","t","l","e">>
TxtAuthorLine == <<"A","u","t","h","o","r","s",":"," ","A","n","n",";"," ","B","o">>
TxtAbstractLine == <<"A","b","s","t","r","a","c","t",":"," ","s","u","m">>
TxtKeywordsLine == <<"K","e","y","w","o","r","d","s",":"," ","a",","," ","b">>
TxtZhAbstractLine == <<"U+6458"," ","U+8981","U+FF1A","U+603B","U+7ED3">>

\* an empty line
BlankLine == <<>>
CitingLine == <<"S","e","e"," ","[","1","]"," ","a","n","d"," ","$","y","$",".">>
\* a page number: a noise line
PageNumberLine == <<"4","2">>
FenceLine == <<"U+0060","U+0060","U+0060","p","y">>
QuoteLine == <<">"," ","q">>
ItemLine == <<"-"," ","i","t">>
OrderedLine == <<"1",")"," ","o","n","e">>
IndentedLine == <<"\t","x"," ","="," ","1">>
\* a numbered heading seven levels deep
DeepHeadingLine == <<"1",".","1",".","1",".","1",".","1",".","1",".","1"," ","H">>
CapsLine == <<"I","N","T","R","O">>
CaptionLine == <<"U+56FE","1"," ","x">>
ReferencesLine == <<"R","e","f","e","r","e","n","c","e","s">>
EntryLine == <<"[","1","]"," ","r","e","f">>
FormulaLine == <<"$","$","x","$","$">>

TxtBodyLines ==
  {BlankLine, CitingLine, PageNumberLine, FenceLine, QuoteLine, ItemLine,
   IndentedLine, DeepHeadingLine, CapsLine, CaptionLine, ReferencesLine, EntryLine}

\* longest run of body lines (after the head lines) that Init enumerates
MaxTxtLines == 2

\* the first lines of a text file: all metadata, a title only, a Chinese
\* abstract, nothing
TxtHeads ==
  { <<TxtTitleLine, TxtAuthorLine, TxtAbstractLine, TxtKeywordsLine, BlankLine>>,
    <<TxtTitleLine, BlankLine>>,
    <<TxtTitleLine, TxtZhAbstractLine, BlankLine>>,
    <<>> }

\* a reference entry longer than BibFallbackLen characters
LongEntryLine == EntryLine \o [k \in 1..BibFallbackLen |-> "a"]

\* longer files: a fenced code block followed by text, a list inside a
\* quote, a long and a short bibliography without blank lines, an ASCII
\* table, an ordered
\* list and a formula
\* two paragraphs separated by blank lines, a page number between them;
\* a sentence with a checkbox; an empty fenced block followed by text; a
\* fenced block with a line of digits
NoiseBetween ==
  << <<"A","l","p","h","a"," ","o","n","e",".">>, BlankLine, PageNumberLine, BlankLine,
     <<"B","e","t","a"," ","t","w","o",".">> >>

TxtLongFiles ==
  { NoiseBetween,
    <<TxtTitleLine, BlankLine, TodoText, BlankLine, CitingLine>>,
    <<TxtTitleLine, BlankLine, FenceLine, Fence, CitingLine>>,
    <<TxtTitleLine, BlankLine, FenceLine, PageNumberLine, IndentedLine, Fence>>,
    <<TxtTitleLine, BlankLine, FenceLine, IndentedLine, <<"U+0060","U+0060","U+0060">>, CitingLine>>,
    <<TxtTitleLine, BlankLine, QuoteLine, ItemLine, ItemLine, CapsLine>>,
    <<TxtTitleLine, BlankLine, OrderedLine, OrderedLine, BlankLine, FormulaLine>>,
    <<TxtTitleLine, BlankLine, ReferencesLine, LongEntryLine, <<"[","2","]"," ","b">>>>,
    <<TxtTitleLine, BlankLine, ReferencesLine, EntryLine, <<" ","c","o","n","t">>,
      <<"2","."," ","b">>>>,
    <<TxtTitleLine, BlankLine, <<"+","-","-","+","-","-","+">>, <<"|"," ","a","|"," ","b","|">>, <<"|"," ","c","|"," ","d","|">>>> }

TxtDocuments ==
  {h \o b : h \in TxtHeads, b \in SeqsUpTo(TxtBodyLines, MaxTxtLines)} \cup TxtLongFiles

----------------------------------------------------------------------------
(* Markdown: the element tree and the functions of md_parser.py over it *)

(* markdown.markdown and BeautifulSoup give a tree of nodes.  A string node   *)
(* is [name |-> "", text |-> t]; an element carries its tag name, the text    *)
(* pieces inside it in document order (strings) and what else the parser      *)
(* reads of it.                                                               *)

TextNode(t) == [name |-> "", text |-> t]
HeadingTags == <<"h1", "h2", "h3", "h4", "h5", "h6">>
Heading(level, strings) == [name |-> HeadingTags[level], strings |-> strings]
Element(name, strings) == [name |-> name, strings |-> strings]

RECURSIVE Concat(_)
Concat(pieces) == IF pieces = <<>> THEN <<>> ELSE Head(pieces) \o Concat(Tail(pieces))

RECURSIVE JoinWith(_, _)
JoinWith(pieces, sep) ==
  IF pieces = <<>> THEN <<>>
  ELSE IF Len(pieces) = 1 THEN pieces[1]
  ELSE pieces[1] \o sep \o JoinWith(Tail(pieces), sep)

\* tag.get_text()
GetText(strings) == Concat(strings)
\* tag.get_text(strip=True): the pieces stripped, the empty ones dropped
GetTextStrip(strings) == Concat(StripNonEmpty(strings))
\* tag.get_text(" ", strip=True)
GetTextSpaced(strings) == JoinWith(StripNonEmpty(strings), <<" ">>)

HeadingNames == {HeadingTags[n] : n \in 1..6}

\* _paragraph_with_references(text)
_paragraph_with_references(text) ==
  LET formula == DetectFormulaBlock(text)
  IN IF formula # None /\ formula[1] # <<>>
     THEN <<[type |-> "formula_block", latex |-> formula[1]]>>
     ELSE <<[type |-> "paragraph", text |-> text]>>
          \o Blocks("formula_inline", ExtractInlineFormulas(text), "latex")
          \o Blocks("reference_marker", MdExtractReferenceMarkers(text), "marker")

\* _parse_heading(h_tag)
_parse_heading(h_tag) ==
  LET text == GetTextStrip(h_tag.strings)
      n == DottedLen(text)
      w == Span(Drop(text, n), Space)
      m == n >= 1 /\ w >= 1 /\ Find(Drop(text, n + w), "\n") = 0
  IN <<[type |-> "heading",
        level |-> CHOOSE l \in 1..6 : HeadingTags[l] = h_tag.name,
        number |-> IF m THEN SubSeq(text, 1, n) ELSE <<>>,
        text |-> IF m THEN Drop(text, n + w) ELSE text]>>

\* _parse_paragraph(p_tag)
_parse_paragraph(p_tag) ==
  LET text == GetTextStrip(p_tag.strings)
  IN IF text = <<>> THEN <<>> ELSE _paragraph_with_references(text)

\* the match of ^\s*\[(?P<flag>[ xX])\]\s*(.+)$ on the text of a list item
TaskItem(text) ==
  LET w == Span(text, Space)
      t == Drop(text, w)
      rest == LStrip(Drop(t, 3))
      m == /\ Len(t) >= 3 /\ t[1] = "[" /\ t[2] \in {" ", "x", "X"} /\ t[3] = "]"
           /\ rest # <<>> /\ Find(rest, "\n") = 0
  IN IF m THEN [checked |-> Some(t[2] \in {"x", "X"}), text |-> rest]
     ELSE [checked |-> None, text |-> text]

\* _parse_list(list_tag)
RECURSIVE _parse_list(_)
_parse_list(list_tag) ==
  <<[type |-> "list",
     ordered |-> list_tag.name = "ol",
     items |-> [k \in 1..Len(list_tag.items) |->
                  LET li == list_tag.items[k]
                      task == TaskItem(GetTextSpaced(li.strings))
                  IN [text |-> task.text,
                      checked |-> task.checked,
                      children |-> Concat([j \in 1..Len(li.sub_lists) |->
                                             _parse_list(li.sub_lists[j])])]]]>>

\* the group of re.match(r"language-(\w+)", c), <<>> when c does not match
LanguageOf(c) ==
  LET prefix == <<"l","a","n","g","u","a","g","e","-">>
      n == Span(Drop(c, Len(prefix)), WordChars)
  IN IF StartsWith(c, prefix) /\ n >= 1 THEN SubSeq(c, Len(prefix) + 1, Len(prefix) + n)
     ELSE <<>>

\* _parse_code_block(pre_tag): pre_tag.code is <<>> or <<the code element>>
_parse_code_block(pre_tag) ==
  IF pre_tag.code = None
  THEN <<[type |-> "code", language |-> <<>>, text |-> GetText(pre_tag.strings)]>>
  ELSE LET code == pre_tag.code[1]
           hits == {k \in 1..Len(code.classes) : LanguageOf(code.classes[k]) # <<>>}
       IN <<[type |-> "code",
             language |-> IF hits = {} THEN <<>> ELSE LanguageOf(code.classes[Min(hits)]),
             text |-> GetText(code.strings)]>>

\* the text of the cells of a row
CellsOf(row) == [k \in 1..Len(row) |-> GetTextStrip(row[k])]

RECURSIVE NonEmptyRows(_)
NonEmptyRows(rows) ==
  IF rows = <<>> THEN <<>>
  ELSE (IF Head(rows) = <<>> THEN <<>> ELSE <<CellsOf(Head(rows))>>) \o NonEmptyRows(Tail(rows))

\* _parse_table(table_tag): caption, thead and tbody are <<>> or <<the
\* element>>, thead and tbody being sequences of rows; trs is every row
_parse_table(table_tag) ==
  LET headers ==
        IF table_tag.thead # None
        THEN IF table_tag.thead[1] # <<>> THEN CellsOf(table_tag.thead[1][1]) ELSE <<>>
        ELSE IF table_tag.trs # <<>> THEN CellsOf(table_tag.trs[1]) ELSE <<>>
      all_rows == table_tag.trs
      body_rows ==
        IF table_tag.tbody # None THEN table_tag.tbody[1]
        ELSE IF headers # <<>> /\ Len(all_rows) > 1 THEN Tail(all_rows) ELSE all_rows
  IN <<[type |-> "table",
        caption |-> IF table_tag.caption # None
                    THEN GetTextStrip(table_tag.caption[1]) ELSE <<>>,
        headers |-> headers,
        rows |-> NonEmptyRows(body_rows)]>>

\* os.path.normpath of a relative path: "." and empty components dropped, a
\* component followed by ".." cancelled
RECURSIVE NormParts(_, _)
NormParts(parts, done) ==
  IF parts = <<>> THEN done
  ELSE IF Head(parts) \in {<<>>, <<".">>} THEN NormParts(Tail(parts), done)
  ELSE IF Head(parts) = <<".", ".">> /\ done # <<>> /\ done[Len(done)] # <<".", ".">>
    THEN NormParts(Tail(parts), SubSeq(done, 1, Len(done) - 1))
  ELSE NormParts(Tail(parts), Append(done, Head(parts)))

\* _resolve_image_path(image_src, base_dir), base_dir being relative
_resolve_image_path(image_src, base_dir) ==
  IF image_src = <<>> THEN <<>>
  ELSE IF \/ StartsWith(image_src, <<"h","t","t","p",":","/","/">>)
          \/ StartsWith(image_src, <<"h","t","t","p","s",":","/","/">>)
    THEN image_src
  ELSE IF image_src[1] = "/"
    THEN <<"/">> \o JoinWith(NormParts(Split(image_src, {"/"}), <<>>), <<"/">>)
  ELSE LET parts == NormParts(Split(base_dir, {"/"}) \o Split(image_src, {"/"}), <<>>)
       IN IF parts = <<>> THEN <<".">> ELSE JoinWith(parts, <<"/">>)

\* _parse_image(img_tag, base_dir): src and alt are the attributes, <<>>
\* when absent
_parse_image(img_tag, base_dir) ==
  IF img_tag.src = <<>> THEN <<>>
  ELSE <<[type |-> "figure",
          path |-> _resolve_image_path(img_tag.src, base_dir),
          caption |-> Strip(img_tag.alt)]>>

\* _parse_hr()
_parse_hr == <<[type |-> "separator"]>>

\* _parse_block_element(element, base_dir), with _parse_blockquote
RECURSIVE _parse_block_element(_, _)
_parse_block_element(element, base_dir) ==
  IF element.name = "" THEN <<>>
  ELSE IF element.name \in HeadingNames THEN _parse_heading(element)
  ELSE IF element.name = "p" THEN _parse_paragraph(element)
  ELSE IF element.name \in {"ul", "ol"} THEN _parse_list(element)
  ELSE IF element.name = "pre" THEN _parse_code_block(element)
  ELSE IF element.name = "table" THEN _parse_table(element)
  ELSE IF element.name = "img" THEN _parse_image(element, base_dir)
  ELSE IF element.name = "blockquote"
    THEN LET children_blocks ==
               Concat([k \in 1..Len(element.children) |->
                         LET child == element.children[k]
                         IN IF child.name = ""
                            THEN IF Strip(child.text) # <<>>
                                 THEN <<[type |-> "paragraph", text |-> Strip(child.text)]>>
                                 ELSE <<>>
                            ELSE _parse_block_element(child, base_dir)])
         IN IF children_blocks = <<>> THEN <<>>
            ELSE <<[type |-> "blockquote", children |-> children_blocks]>>
  ELSE IF element.name = "hr" THEN _parse_hr
  ELSE LET text == GetTextStrip(element.strings)
       IN IF text = <<>> THEN <<>> ELSE <<[type |-> "paragraph", text |-> text]>>

----------------------------------------------------------------------------
(* Markdown: metadata, keywords, the bibliography section *)

\* what yaml.safe_load returns
YStr(v) == [t |-> "str", v |-> v]
YNull == [t |-> "null", v |-> <<>>]
\* an integer, with the text str() gives for it
YInt(v) == [t |-> "int", v |-> v]
YList(v) == [t |-> "list", v |-> v]
\* a mapping: v is a function from its keys
YDict(v) == [t |-> "dict", v |-> v]
YError == [t |-> "error", v |-> <<>>]

\* the front matters of the input files
YamlFull == <<"t","i","t","l","e",":"," ","T","\n","a","u","t","h","o","r","s",":","\n"," "," ","-"," ","A","n","n","\n"," "," ","-"," ","n","a","m","e",":"," ","B","o","\n"," "," "," "," ","e","m","a","i","l",":"," ","b","@","u","\n"," "," ","-"," ","7","\n","a","b","s","t","r","a","c","t",":"," ","s","u","m","\n","k","e","y","w","o","r","d","s",":"," ","a",","," ","b">>
YamlPartial == <<"t","i","t","l","e",":","\n","a","u","t","h","o","r","s",":"," ","A","n","n","\n","k","e","y","w","o","r","d","s",":","\n"," "," ","-"," ","k","\n"," "," ","-"," ","3">>
YamlTitle == <<"t","i","t","l","e",":"," ","T">>
YamlBroken == <<"t","i","t","l","e",":"," ","[">>
YamlScalar == <<"p","l","a","i","n"," ","t","e","x","t",".">>

\* yaml.safe_load(front_matter_str), on the front matters of the input files
YamlLoad(front_matter_str) ==
  IF front_matter_str = YamlFull
    THEN YDict(("title" :> YStr(<<"T">>))
               @@ ("authors" :> YList(<<YStr(<<"A","n","n">>),
                                        YDict(("name" :> YStr(<<"B","o">>))
                                              @@ ("email" :> YStr(<<"b","@","u">>))),
                                        YInt(<<"7">>)>>))
               @@ ("abstract" :> YStr(<<"s","u","m">>))
               @@ ("keywords" :> YStr(<<"a",","," ","b">>)))
  ELSE IF front_matter_str = YamlPartial
    THEN YDict(("title" :> YNull)
               @@ ("authors" :> YStr(<<"A","n","n">>))
               @@ ("keywords" :> YList(<<YStr(<<"k">>), YInt(<<"3">>)>>)))
  ELSE IF front_matter_str = YamlTitle THEN YDict("title" :> YStr(<<"T">>))
  ELSE IF front_matter_str = YamlBroken THEN YError
  ELSE IF front_matter_str = <<>> THEN YNull
  ELSE YStr(front_matter_str)

\* d.get(key, default) of a mapping
Get(d, key, default) == IF key \in DOMAIN d.v THEN d.v[key] ELSE default

\* bool(v)
Truthy(v) ==
  IF v.t \in {"null", "error"} THEN FALSE
  ELSE IF v.t = "int" THEN v.v # <<"0">>
  ELSE IF v.t = "dict" THEN DOMAIN v.v # {}
  ELSE v.v # <<>>

\* front_matter.get(key, "") or "": the text of a string, "" for what is
\* false; a value of another type is kept as it is
TextOr(d, key) ==
  LET v == Get(d, key, YStr(<<>>))
  IN IF ~Truthy(v) THEN <<>> ELSE IF v.t = "str" THEN v.v ELSE v

\* item.get(key, "") of an author mapping
Field(item, key) ==
  LET v == Get(item, key, YStr(<<>>)) IN IF v.t \in {"str", "null"} THEN v.v ELSE v

\* lines 43-57: the authors of the front matter
RECURSIVE AuthorsOfItems(_)
AuthorsOfItems(items) ==
  IF items = <<>> THEN <<>>
  ELSE (IF Head(items).t = "str"
          THEN <<[name |-> Head(items).v, affiliation |-> <<>>, email |-> <<>>]>>
        ELSE IF Head(items).t = "dict"
          THEN <<[name |-> Field(Head(items), "name"),
                  affiliation |-> Field(Head(items), "affiliation"),
                  email |-> Field(Head(items), "email")]>>
        ELSE <<>>)
       \o AuthorsOfItems(Tail(items))

\* lines 59-67: the keywords of the front matter
FrontKeywords(d) ==
  LET keywords_data == Get(d, "keywords", YList(<<>>))
  IN IF keywords_data.t = "str" THEN StripNonEmpty(Split(keywords_data.v, {","}))
     ELSE IF keywords_data.t = "list"
       THEN StripNonEmpty([k \in 1..Len(keywords_data.v) |->
                             IF keywords_data.v[k].t = "null"
                             THEN <<"N","o","n","e">> ELSE keywords_data.v[k].v])
     ELSE <<>>

Dashes == <<"-", "-", "-">>

\* position of the first occurrence of word in text at or after position i,
\* 0 when there is none
FindFrom(text, word, i) ==
  LET hits == {k \in i..(Len(text) - Len(word) + 1) : SubSeq(text, k, k + Len(word) - 1) = word}
  IN IF hits = {} THEN 0 ELSE Min(hits)

\* _parse_metadata_from_md(md_text): the metadata, the remaining text and the
\* position in md_text where the remaining text starts
_parse_metadata_from_md(md_text) ==
  LET second == FindFrom(md_text, Dashes, 4)
      front_matter_str == Strip(SubSeq(md_text, 4, second - 1))
      rest == Drop(md_text, second + 2)
      front_matter == YamlLoad(front_matter_str)
      authors_data == Get(front_matter, "authors", YList(<<>>))
  IN IF StartsWith(md_text, Dashes) /\ second # 0
     THEN [metadata |->
             IF front_matter.t = "dict"
             THEN [title |-> TextOr(front_matter, "title"),
                   authors |-> IF authors_data.t = "list"
                               THEN AuthorsOfItems(authors_data.v) ELSE <<>>,
                   abstract |-> TextOr(front_matter, "abstract"),
                   keywords |-> FrontKeywords(front_matter)]
             ELSE NoMetadata,
           remaining |-> Strip(rest),
           start |-> second + 3 + Span(rest, Space)]
     ELSE [metadata |-> NoMetadata, remaining |-> md_text, start |-> 1]

\* length of the match of #+ at position i of text when i starts a line, else 0
HashesAt(text, i) == IF IsLineStart(text, i) THEN Span(Drop(text, i - 1), {"#"}) ELSE 0

\* _split_keywords_text(text)
_split_keywords_text(text) == StripNonEmpty(Split(text, {",", "\n", "U+FF0C", "U+3001", ";", "U+FF1B"}))

MdKeywordsWords == { <<"k","e","y","w","o","r","d","s">>, <<"U+5173","U+952E","U+8BCD">> }

\* the end of the match of ^#+\s*(keywords|U+5173U+952EU+8BCD)\s*$ at position i of text,
\* 0 when it does not match there
KeywordsHeadingEnd(text, i) ==
  LET h == HashesAt(text, i)
      r == Drop(text, i - 1 + h)
      w == Span(r, Space)
      r2 == Drop(r, w)
      fits == {k \in MdKeywordsWords : StartsWith(LowerStr(r2), k)}
      k == CHOOSE x \in fits : TRUE
      after == i + h + w + Len(k)
      t == Span(Drop(text, after - 1), Space)
      \* the positions after the word where $ matches, the furthest first
      ends == {e \in after..(after + t) : e = Len(text) + 1 \/ text[e] = "\n"}
  IN IF h = 0 \/ fits = {} \/ ends = {} THEN 0
     ELSE CHOOSE e \in ends : \A x \in ends : x <= e

\* the group of (?:Keywords|U+5173U+952EU+8BCD)\s*[:U+FF1A]\s*(.+) at position i, <<>> when
\* the pattern does not match there
InlineKeywordsAt(text, i) ==
  LET r == Drop(text, i - 1)
      fits == {k \in {<<"K","e","y","w","o","r","d","s">>, <<"U+5173","U+952E","U+8BCD">>} : StartsWith(r, k)}
      k == CHOOSE x \in fits : TRUE
      r1 == LStrip(Drop(r, Len(k)))
      r2 == LStrip(Drop(r1, 1))
      r3 == Drop(r1, 1)
      ws == Span(r3, Space)
      \* \s* gives back what it took when (.+) would otherwise be empty
      back == {j \in 1..ws : r3[j] # "\n"}
      j == CHOOSE x \in back : \A y \in back : y <= x
      group == IF r2 # <<>> THEN SubSeq(r2, 1, SpanNot(r2, {"\n"}))
               ELSE IF back # {} THEN SubSeq(r3, j, j + SpanNot(Drop(r3, j - 1), {"\n"}) - 1)
               ELSE <<>>
  IN IF fits = {} \/ r1 = <<>> \/ r1[1] \notin {":", "U+FF1A"} THEN <<>> ELSE group

\* _extract_keywords_from_body(md_text)
_extract_keywords_from_body(md_text) ==
  LET heads == {i \in 1..Len(md_text) : KeywordsHeadingEnd(md_text, i) # 0}
      following == Drop(md_text, KeywordsHeadingEnd(md_text, Min(heads)) - 1)
      nexts == {i \in 1..Len(following) :
                  /\ HashesAt(following, i) >= 1
                  /\ Len(following) >= i + HashesAt(following, i)
                  /\ following[i + HashesAt(following, i)] \in Space}
      keywords_block == IF nexts = {} THEN Strip(following)
                        ELSE Strip(SubSeq(following, 1, Min(nexts) - 1))
      inlines == {i \in 1..Len(md_text) : InlineKeywordsAt(md_text, i) # <<>>}
  IN IF heads # {} /\ keywords_block # <<>> THEN _split_keywords_text(keywords_block)
     ELSE IF inlines # {} THEN _split_keywords_text(InlineKeywordsAt(md_text, Min(inlines)))
     ELSE <<>>

\* whether ^(#+\s+(?:References|U+53C2U+8003U+6587U+732E)) matches at position i of text
ReferencesHeadingAt(text, i) ==
  LET h == HashesAt(text, i)
      r == Drop(text, i - 1 + h)
  IN h >= 1 /\ Span(r, Space) >= 1
     /\ \E w \in ReferencesWords : StartsWith(LowerStr(LStrip(r)), w)

\* _split_content_and_bibliography(md_text): the two texts, and the position
\* in md_text of the split (0 when there is none)
_split_content_and_bibliography(md_text) ==
  LET hits == {i \in 1..Len(md_text) : ReferencesHeadingAt(md_text, i)}
  IN IF hits = {} THEN [content |-> md_text, bibliography |-> <<>>, at |-> 0]
     ELSE [content |-> Strip(SubSeq(md_text, 1, Min(hits) - 1)),
           bibliography |-> Strip(Drop(md_text, Min(hits) - 1)),
           at |-> Min(hits)]

\* every li of a list in document order, each with the text get_text() gives
RECURSIVE LiTexts(_)
LiTexts(list_tag) ==
  Concat([k \in 1..Len(list_tag.items) |->
            LET li == list_tag.items[k]
                nested == Concat([j \in 1..Len(li.sub_lists) |-> LiTexts(li.sub_lists[j])])
            IN <<GetText(li.strings) \o Concat(nested)>> \o nested])

\* lines 446-456: the lines of a paragraph added to all_items
RECURSIVE AddLines(_, _)
AddLines(lines, all_items) ==
  IF lines = <<>> THEN all_items
  ELSE LET line == Strip(Head(lines))
       IN IF line # <<>> /\ EntryStart(line).match
            THEN AddLines(Tail(lines), Append(all_items, line))
          ELSE IF line # <<>>
            THEN IF all_items # <<>>
                 THEN AddLines(Tail(lines),
                        [all_items EXCEPT ![Len(all_items)] = @ \o <<" ">> \o line])
                 ELSE AddLines(Tail(lines), Append(all_items, line))
          ELSE AddLines(Tail(lines), all_items)

\* lines 437-458: the siblings after the references heading
RECURSIVE CollectItems(_, _)
CollectItems(nodes, all_items) ==
  IF nodes = <<>> THEN all_items
  ELSE LET current == Head(nodes)
       IN IF current.name \in HeadingNames THEN all_items
          ELSE IF current.name \in {"ul", "ol"}
            THEN CollectItems(Tail(nodes),
                   all_items \o [k \in 1..Len(LiTexts(current)) |-> Strip(LiTexts(current)[k])])
          ELSE IF current.name = "p"
            THEN CollectItems(Tail(nodes),
                   AddLines(Split(Strip(GetText(current.strings)), {"\n"}), all_items))
          ELSE CollectItems(Tail(nodes), all_items)

\* lines 461-482: one entry per item that is not empty
RECURSIVE MdEntriesOf(_)
MdEntriesOf(items) ==
  IF items = <<>> THEN <<>>
  ELSE (IF Head(items) = <<>> THEN <<>>
        ELSE <<BibEntry(EntryStart(Head(items)).id, Head(items))>>)
       \o MdEntriesOf(Tail(items))

\* re.search(r"references|U+53C2U+8003U+6587U+732E", string, re.IGNORECASE)
MentionsReferences(string) == \E w \in ReferencesWords : Contains(LowerStr(string), w)

\* _parse_bibliography_from_md(md_text): nodes is what markdown.markdown and
\* BeautifulSoup make of md_text
_parse_bibliography_from_md(md_text, nodes) ==
  LET hits == {k \in 1..Len(nodes) :
                 /\ nodes[k].name \in HeadingNames
                 /\ Len(nodes[k].strings) = 1
                 /\ MentionsReferences(nodes[k].strings[1])}
  IN IF md_text = <<>> \/ hits = {} THEN <<>>
     ELSE MdEntriesOf(CollectItems(Drop(nodes, Min(hits)), <<>>))

\* lines 524-535 of parse_md_to_json
MdPlaceholder(entries) ==
  IF entries = <<>> THEN <<BibEntry(<<>>, <<>>)>> ELSE entries

----------------------------------------------------------------------------
(* Markdown: the input file *)

(* A file is a sequence of blocks separated by blank lines.  A block is its   *)
(* Markdown text (raw), the nodes markdown.markdown with the extensions of    *)
(* _parse_content_from_md makes of it (html), and the nodes it makes without  *)
(* extensions, as in _parse_bibliography_from_md (plain).                     *)

MdBlock(raw, html, plain) == [raw |-> raw, html |-> html, plain |-> plain]
Same(raw, html) == MdBlock(raw, html, html)

\* a front matter: it is cut off before anything is rendered
MdFront(yaml) == Same(Dashes \o <<"\n">> \o yaml \o <<"\n">> \o Dashes, <<>>)

Li(strings, sub_lists) == [strings |-> strings, sub_lists |-> sub_lists]
List(name, items) == [name |-> name, items |-> items]

MdTitleHeading == Same(<<"#"," ","I","n","t","r","o">>, <<Heading(1, <<<<"I","n","t","r","o">>>>)>>)
MdNumberedHeading == Same(<<"#","#"," ","1",".","1"," ","B","a","c","k","g","r","o","u","n","d">>, <<Heading(2, <<<<"1",".","1"," ","B","a","c","k","g","r","o","u","n","d">>>>)>>)
MdCitingPara == Same(<<"S","e","e"," ","[","1","]"," ","a","n","d"," ","$","y","$",".">>, <<Element("p", <<<<"S","e","e"," ","[","1","]"," ","a","n","d"," ","$","y","$",".">>>>)>>)
\* emphasis splits the text of a paragraph into pieces
MdEmphasisPara == Same(<<"a"," ","*","b","*"," ","c">>, <<Element("p", <<<<"a"," ">>, <<"b">>, <<" ","c">>>>)>>)
\* an image is rendered inside a paragraph that has no text
MdImagePara == Same(<<"!","[","c","a","p","]","(","f",".","p","n","g",")">>, <<Element("p", <<>>)>>)
MdTaskList ==
  Same(<<"-"," ","[","x","]"," ","d","o","n","e","\n","-"," ","b","\n"," "," "," "," ","-"," ","c">>,
       <<List("ul", <<Li(<<<<"[","x","]"," ","d","o","n","e">>>>, <<>>),
                      Li(<<<<"b">>, <<"\n">>>>, <<List("ul", <<Li(<<<<"c">>>>, <<>>)>>)>>)>>)>>)
MdOrderedList == Same(<<"1","."," ","r","1">>, <<List("ol", <<Li(<<<<"r","1">>>>, <<>>)>>)>>)
\* a fenced code block, rendered by codehilite without Pygments
MdCodePre ==
  MdBlock(<<"U+0060","U+0060","U+0060","p","y","\n","x"," ","="," ","1","\n","U+0060","U+0060","U+0060">>,
          <<[name |-> "pre", strings |-> <<<<"x"," ","="," ","1","\n">>>>,
             code |-> Some([classes |-> <<<<"l","a","n","g","u","a","g","e","-","p","y">>>>, strings |-> <<<<"x"," ","="," ","1","\n">>>>])]>>,
          <<Element("p", <<<<"p","y","\n","x"," ","="," ","1">>>>)>>)
\* the same block rendered by codehilite with Pygments: a div of spans
MdCodeDiv ==
  MdBlock(<<"U+0060","U+0060","U+0060","p","y","\n","x"," ","="," ","1","\n","U+0060","U+0060","U+0060">>, <<Element("div", <<<<"x">>, <<" ">>, <<"=">>, <<" ">>, <<"1">>, <<"\n">>>>)>>,
          <<Element("p", <<<<"p","y","\n","x"," ","="," ","1">>>>)>>)
MdQuote ==
  Same(<<">"," ","q">>, <<[name |-> "blockquote",
                 children |-> <<TextNode(<<"\n">>), Element("p", <<<<"q">>>>), TextNode(<<"\n">>)>>]>>)
MdRule == Same(<<"*","*","*">>, <<[name |-> "hr"]>>)
MdDashRule == Same(Dashes, <<[name |-> "hr"]>>)
MdTable ==
  MdBlock(<<"a"," ","|"," ","b","\n","-","-","-"," ","|"," ","-","-","-","\n","1"," ","|"," ","2">>,
          <<[name |-> "table", caption |-> None,
             thead |-> Some(<<<< <<<<"a">>>>, <<<<"b">>>> >>>>),
             tbody |-> Some(<<<< <<<<"1">>>>, <<<<"2">>>> >>>>),
             trs |-> << << <<<<"a">>>>, <<<<"b">>>> >>, << <<<<"1">>>>, <<<<"2">>>> >> >>]>>,
          <<Element("p", <<<<"a"," ","|"," ","b","\n","-","-","-"," ","|"," ","-","-","-","\n","1"," ","|"," ","2">>>>)>>)
MdFormula == Same(<<"$","$","x","$","$">>, <<Element("p", <<<<"$","$","x","$","$">>>>)>>)
MdReferencesHeading == Same(<<"#","#"," ","R","e","f","e","r","e","n","c","e","s">>, <<Heading(2, <<<<"R","e","f","e","r","e","n","c","e","s">>>>)>>)
MdEntriesPara == Same(<<"[","1","]"," ","r","e","f","\n","c","o","n","t","\n","(","2",")"," ","b">>, <<Element("p", <<<<"[","1","]"," ","r","e","f","\n","c","o","n","t","\n","(","2",")"," ","b">>>>)>>)
MdKeywordsHeading == Same(<<"#","#"," ","K","e","y","w","o","r","d","s">>, <<Heading(2, <<<<"K","e","y","w","o","r","d","s">>>>)>>)
MdKeywordsPara == Same(<<"K","e","y","w","o","r","d","s",":"," ","x",";"," ","y">>, <<Element("p", <<<<"K","e","y","w","o","r","d","s",":"," ","x",";"," ","y">>>>)>>)
MdScalarPara == Same(YamlScalar, <<Element("p", <<YamlScalar>>)>>)
\* raw HTML with a body element: BeautifulSoup finds it as soup.body
MdRawBody ==
  Same(<<"<","b","o","d","y",">","\n","<","i","m","g"," ","s","r","c","=","\"","f",".","p","n","g","\""," ","a","l","t","=","\"","c","a","p","\"",">","\n","<","/","b","o","d","y",">">>,
       <<[name |-> "body",
          children |-> <<TextNode(<<"\n">>),
                         [name |-> "img", src |-> <<"f",".","p","n","g">>, alt |-> <<"c","a","p">>],
                         TextNode(<<"\n">>)>>]>>)

\* a title heading, an author line, an abstract line and a keywords line
MdHeadTitle == Same(<<"#"," ","T","i","t","l","e">>, <<Heading(1, <<<<"T","i","t","l","e">>>>)>>)
MdHeadAuthor == Same(<<"A","n","n"," ","L","e","e">>, <<Element("p", <<<<"A","n","n"," ","L","e","e">>>>)>>)
MdHeadAbstract == Same(<<"A","b","s","t","r","a","c","t",":"," ","x">>, <<Element("p", <<<<"A","b","s","t","r","a","c","t",":"," ","x">>>>)>>)
MdHeadKeywords == Same(<<"K","e","y","w","o","r","d","s",":"," ","a",","," ","b">>, <<Element("p", <<<<"K","e","y","w","o","r","d","s",":"," ","a",","," ","b">>>>)>>)
MdTodoPara == Same(TodoText, <<Element("p", <<TodoText>>)>>)
MdBodyMetadata == <<MdHeadTitle, MdHeadAuthor, MdHeadAbstract, MdHeadKeywords>>

MdBodyBlocks ==
  {MdTitleHeading, MdNumberedHeading, MdCitingPara, MdImagePara, MdTaskList, MdCodePre,
   MdQuote, MdRule, MdTable, MdReferencesHeading, MdEntriesPara, MdKeywordsPara}

\* longest run of blocks (after the front matter) that Init enumerates
MaxMdBlocks == 2

MdFronts == {<<>>, <<MdFront(YamlFull)>>, <<MdFront(YamlPartial)>>, <<MdFront(YamlBroken)>>}

\* longer files: a keywords section, a references section with a list and a
\* following section, a rule at the start and a second one later, a rule at
\* the start only, raw HTML, code rendered with Pygments, emphasis and a
\* formula
MdLongFiles ==
  { MdBodyMetadata,
    <<MdTitleHeading, MdTodoPara, MdCitingPara>>,
    <<MdFront(YamlTitle), MdKeywordsHeading, MdKeywordsPara, MdTitleHeading>>,
    <<MdTitleHeading, MdReferencesHeading, MdOrderedList, MdEntriesPara, MdTitleHeading,
      MdCitingPara>>,
    <<MdDashRule, MdScalarPara, MdDashRule, MdCitingPara>>,
    <<MdDashRule, MdCitingPara>>,
    <<MdRawBody>>,
    <<MdFront(YamlFull), MdCodeDiv, MdEmphasisPara, MdFormula>> }

MdDocuments ==
  {f \o b : f \in MdFronts, b \in SeqsUpTo(MdBodyBlocks, MaxMdBlocks)} \cup MdLongFiles

\* the text of the file
MdText(doc) == JoinWith([k \in 1..Len(doc) |-> doc[k].raw], <<"\n", "\n">>)

\* the position in MdText(doc) where block k starts
RECURSIVE BlockStart(_, _)
BlockStart(doc, k) == IF k = 1 THEN 1 ELSE BlockStart(doc, k - 1) + Len(doc[k - 1].raw) + 2

\* the nodes of the blocks of doc that start in from..(to - 1), a newline
\* between two blocks; plain says which rendering
RECURSIVE NodesFrom(_, _, _, _, _)
NodesFrom(doc, k, from, to, plain) ==
  IF k > Len(doc) THEN <<>>
  ELSE IF BlockStart(doc, k) >= from /\ BlockStart(doc, k) < to
    THEN (IF plain THEN doc[k].plain ELSE doc[k].html)
         \o <<TextNode(<<"\n">>)>> \o NodesFrom(doc, k + 1, from, to, plain)
  ELSE NodesFrom(doc, k + 1, from, to, plain)

\* the directory of the input file
BaseDir == <<"d", "o", "c", "s">>

----------------------------------------------------------------------------
(* The input files *)

DotDocx == <<".","d","o","c","x">>
DotMd == <<".","m","d">>
DotTxt == <<".","t","x","t">>

File(exists, ext, kind, data) == [exists |-> exists, ext |-> ext, kind |-> kind, data |-> data]

DocxFiles ==
  {File(TRUE, DotDocx, "docx", d) : d \in DocxDocuments}
  \cup { File(TRUE, <<".","D","O","C","X">>, "docx",
              <<TitlePara, AuthorPara, AbstractPara, CaptionPara, ImagePara>>),
         \* a .docx that is no readable package
         File(TRUE, DotDocx, "corrupt", <<>>) }

TxtFiles ==
  {File(TRUE, DotTxt, "txt", d) : d \in TxtDocuments}
  \cup { \* a .txt that is not UTF-8 text
         File(TRUE, DotTxt, "undecodable", <<>>) }

MdFiles ==
  {File(TRUE, DotMd, "md", d) : d \in MdDocuments}
  \cup { \* a .md that is not UTF-8 text
         File(TRUE, DotMd, "undecodable", <<>>) }

\* files that are missing, or whose extension no extractor handles
OtherFiles ==
  { File(FALSE, DotDocx, "none", <<>>),
    File(FALSE, <<".","p","d","f">>, "none", <<>>),
    File(TRUE, <<".","p","d","f">>, "other", <<>>),
    File(TRUE, <<".","P","D","F">>, "other", <<>>),
    File(TRUE, <<".","d","o","c">>, "other", <<>>),
    File(TRUE, <<>>, "other", <<>>) }

----------------------------------------------------------------------------
(* State *)

\* the locals of the plain text and Markdown extractors before they start:
\* lines holds the lines of the main text, or the nodes of the Markdown body
NoScan ==
  [lines |-> <<>>, buffer |-> <<>>, current_type |-> None, code_language |-> <<>>,
   in_code_block |-> FALSE, bibliography_text |-> <<>>, bibliography_nodes |-> <<>>]

Locals ==
  [content |-> content, bibliography |-> bibliography,
   bibliography_started |-> bibliography_started,
   current_list_items |-> current_list_items,
   current_list_num_id |-> current_list_num_id]

SetLocals(st) ==
  /\ content' = st.content
  /\ bibliography' = st.bibliography
  /\ bibliography_started' = st.bibliography_started
  /\ current_list_items' = st.current_list_items
  /\ current_list_num_id' = st.current_list_num_id

Tree == [metadata |-> metadata, content |-> content, bibliography |-> bibliography]

\* the call has not started
FreshCall ==
  /\ pc = "start"
  /\ idx = 0
  /\ metadata = NoMetadata
  /\ content = <<>>
  /\ bibliography = <<>>
  /\ bibliography_started = FALSE
  /\ current_list_items = <<>>
  /\ current_list_num_id = None
  /\ written = {}
  /\ writes = <<>>
  /\ validation = ""
  /\ result = None
  /\ error = None
  /\ run = 1
  /\ first = None
  /\ scan = NoScan

\* no second call
NoPeer ==
  [file |-> <<>>, pc |-> "none", idx |-> 0, metadata |-> NoMetadata, content |-> <<>>,
   bibliography |-> <<>>, bibliography_started |-> FALSE, current_list_items |-> <<>>,
   current_list_num_id |-> None, error |-> None]

\* no call of the compiler tool
NoCompile == [pc |-> "none"]

Fresh ==
  /\ FreshCall
  /\ peer = NoPeer
  /\ compile = NoCompile

InitDocx == file \in DocxFiles /\ Fresh
InitTxt == file \in TxtFiles /\ Fresh
InitMd == file \in MdFiles /\ Fresh
InitOther == file \in OtherFiles /\ Fresh

Raise(type, about) ==
  /\ pc' = "raised"
  /\ error' = Some([type |-> type, about |-> about])

----------------------------------------------------------------------------
(* DocumentParserTool._run: existence check and dispatch *)

\* os.path.splitext(file_path)[1].lower()
Ext == LowerStr(file.ext)

\* a mutant of the dispatch: the last branch is the plain text extractor
\* instead of the NotImplementedError
DispatchAnyAsTxt(ext) ==
  IF ext = DotDocx THEN "docx"
  ELSE IF ext = DotMd THEN "md"
  ELSE "txt"

\* lines 49-56 of document_tools.py: the extractor chosen for an extension,
\* "" when the extension is not supported
Dispatch(ext) ==
  IF ext = DotDocx THEN "docx"
  ELSE IF ext = DotMd THEN "md"
  ELSE IF ext = DotTxt THEN "txt"
  ELSE ""

\* lines 43-56 of _run
ToolRun ==
  /\ pc = "start"
  /\ IF ~file.exists
       THEN Raise("FileNotFoundError", file.ext)
     ELSE IF Dispatch(Ext) = ""
       THEN Raise("NotImplementedError", Ext)
     ELSE pc' = Dispatch(Ext) /\ error' = error
  /\ UNCHANGED <<file, compile, peer, writes, idx, metadata, content, bibliography, bibliography_started,
                 current_list_items, current_list_num_id, written, validation,
                 result, run, first, scan>>

----------------------------------------------------------------------------
(* parse_docx_to_json *)

\* lines 418-427: Document(file_path) and _parse_metadata
DocxOpen ==
  /\ pc = "docx"
  /\ IF file.kind # "docx"
       THEN Raise("PackageNotFoundError", file.ext) /\ UNCHANGED <<metadata, idx>>
     ELSE LET m == DocxParseMetadata(file.data)
          IN IF m.missing # ""
             THEN Raise("ValueError", m.missing) /\ UNCHANGED <<metadata, idx>>
             ELSE /\ metadata' = m.metadata
                  /\ idx' = 1
                  /\ pc' = "docx_body"
                  /\ error' = error
  /\ UNCHANGED <<file, compile, peer, writes, content, bibliography, bibliography_started, current_list_items,
                 current_list_num_id, written, validation, result, run, first, scan>>

Uuids == 1..MaxUuid

\* n draws of uuid.uuid4(): names that differ from each other and from every
\* name drawn before (each name drawn so far is the name of a file of
\* parsed_images)
FreshNames(n) ==
  {u \in [1..n -> Uuids \ {w.name : w \in written}] :
     \A i, j \in 1..n : i # j => u[i] # u[j]}

\* lines 46-48 of _save_image, for the images of one paragraph: each path is
\* opened for writing
SaveAll(images) ==
  LET paths == {images[k].path : k \in 1..Len(images)}
  IN /\ written' = written \cup paths
     /\ writes' = [p \in DOMAIN writes \cup paths |->
                     (IF p \in DOMAIN writes THEN writes[p] ELSE 0)
                     + Cardinality({k \in 1..Len(images) : images[k].path = p})]

\* lines 443-516: one Paragraph of _iter_block_items
DocxParagraphStep ==
  /\ pc = "docx_body"
  /\ idx <= Len(file.data)
  /\ file.data[idx].kind = "p"
  /\ \E order \in RidOrders(file.data[idx].runs) :
       \E uuids \in FreshNames(Len(ImageRids(order))) :
         LET images == _extract_images_from_paragraph(order, uuids, idx)
         IN /\ SetLocals(DocxParagraph(Locals, file.data[idx], idx, images))
            /\ SaveAll(images)
  /\ idx' = idx + 1
  /\ UNCHANGED <<file, compile, peer, pc, metadata, validation, result, error, run, first, scan>>

\* lines 518-525: one Table of _iter_block_items
DocxTableStep ==
  /\ pc = "docx_body"
  /\ idx <= Len(file.data)
  /\ file.data[idx].kind = "tbl"
  /\ SetLocals(DocxTable(Locals, file.data[idx], idx))
  /\ idx' = idx + 1
  /\ UNCHANGED <<file, compile, peer, writes, pc, metadata, written, validation, result, error, run, first, scan>>

\* lines 527-543: after the loop
DocxReturn ==
  /\ pc = "docx_body"
  /\ idx > Len(file.data)
  /\ SetLocals(DocxEnd(Locals))
  /\ pc' = "parsed"
  /\ UNCHANGED <<file, compile, peer, writes, idx, metadata, written, validation, result, error, run, first, scan>>

----------------------------------------------------------------------------
(* parse_txt_to_json *)

\* the locals of _parse_content as one record
TxtLocals ==
  [content |-> content, buffer |-> scan.buffer, current_type |-> scan.current_type,
   code_language |-> scan.code_language, in_code_block |-> scan.in_code_block]

SetTxtLocals(st) ==
  /\ content' = st.content
  /\ scan' = [scan EXCEPT !.buffer = st.buffer, !.current_type = st.current_type,
                          !.code_language = st.code_language,
                          !.in_code_block = st.in_code_block]

\* lines 447-452 of parse_txt_to_json and lines 226-232 of _parse_content
TxtOpen ==
  /\ pc = "txt"
  /\ IF file.kind # "txt"
       THEN Raise("UnicodeDecodeError", file.ext) /\ UNCHANGED <<metadata, idx, scan>>
     ELSE LET full_text == JoinLines(file.data)
              sections == _split_sections(full_text)
          IN /\ metadata' = TxtParseMetadata(file.data, full_text)
             /\ scan' = [NoScan EXCEPT !.lines = Split(sections.main, {"\n"}),
                                       !.bibliography_text = sections.bibliography]
             /\ idx' = 1
             /\ pc' = "txt_body"
             /\ error' = error
  /\ UNCHANGED <<file, compile, peer, writes, content, bibliography, bibliography_started, current_list_items,
                 current_list_num_id, written, validation, result, run, first>>

\* lines 314-377 of _parse_content: one line
TxtLine ==
  /\ pc = "txt_body"
  /\ idx <= Len(scan.lines)
  /\ SetTxtLocals(TxtLineStep(TxtLocals, scan.lines[idx]))
  /\ idx' = idx + 1
  /\ UNCHANGED <<file, compile, peer, writes, pc, metadata, bibliography, bibliography_started,
                 current_list_items, current_list_num_id, written, validation,
                 result, error, run, first>>

\* line 380 of _parse_content and lines 454-469 of parse_txt_to_json
TxtReturn ==
  /\ pc = "txt_body"
  /\ idx > Len(scan.lines)
  /\ SetTxtLocals(flush_buffer(TxtLocals))
  /\ bibliography' = TxtPlaceholder(TxtParseBibliography(scan.bibliography_text))
  /\ pc' = "parsed"
  /\ UNCHANGED <<file, compile, peer, writes, idx, metadata, bibliography_started, current_list_items,
                 current_list_num_id, written, validation, result, error, run, first>>

----------------------------------------------------------------------------
(* parse_md_to_json *)

\* body = soup.body or soup, then body.children
BodyChildren(nodes) ==
  LET bodies == {k \in 1..Len(nodes) : nodes[k].name = "body"}
  IN IF bodies = {} THEN nodes ELSE nodes[Min(bodies)].children

\* lines 510-516 of parse_md_to_json and lines 389-393 of _parse_content_from_md
MdOpen ==
  /\ pc = "md"
  /\ IF file.kind # "md"
       THEN Raise("UnicodeDecodeError", file.ext) /\ UNCHANGED <<metadata, idx, scan>>
     ELSE LET md_text == MdText(file.data)
              m == _parse_metadata_from_md(md_text)
              parts == _split_content_and_bibliography(m.remaining)
              at == IF parts.at = 0 THEN Len(md_text) + 1 ELSE m.start + parts.at - 1
          IN /\ metadata' = IF m.metadata.keywords = <<>>
                            THEN [m.metadata EXCEPT
                                    !.keywords = _extract_keywords_from_body(m.remaining)]
                            ELSE m.metadata
             /\ scan' = [NoScan EXCEPT
                           !.lines = BodyChildren(NodesFrom(file.data, 1, m.start, at, FALSE)),
                           !.bibliography_text = parts.bibliography,
                           !.bibliography_nodes =
                              NodesFrom(file.data, 1, at, Len(md_text) + 1, TRUE)]
             /\ idx' = 1
             /\ pc' = "md_body"
             /\ error' = error
  /\ UNCHANGED <<file, compile, peer, writes, content, bibliography, bibliography_started, current_list_items,
                 current_list_num_id, written, validation, result, run, first>>

\* lines 395-401 of _parse_content_from_md: one child of the body
MdElement ==
  /\ pc = "md_body"
  /\ idx <= Len(scan.lines)
  /\ content' = content \o (IF scan.lines[idx].name = "" THEN <<>>
                            ELSE _parse_block_element(scan.lines[idx], BaseDir))
  /\ idx' = idx + 1
  /\ UNCHANGED <<file, compile, peer, writes, pc, metadata, bibliography, bibliography_started,
                 current_list_items, current_list_num_id, written, validation,
                 result, error, run, first, scan>>

\* lines 521-537 of parse_md_to_json
MdReturn ==
  /\ pc = "md_body"
  /\ idx > Len(scan.lines)
  /\ bibliography' = MdPlaceholder(_parse_bibliography_from_md(scan.bibliography_text,
                                                               scan.bibliography_nodes))
  /\ pc' = "parsed"
  /\ UNCHANGED <<file, compile, peer, writes, idx, metadata, content, bibliography_started, current_list_items,
                 current_list_num_id, written, validation, result, error, run, first, scan>>

----------------------------------------------------------------------------
(* Schema validation and return *)

\* what load_document_schema and jsonschema.validate can do: the schema file
\* cannot be loaded, the tree is valid, validate raises ValidationError, or
\* validate raises another exception
ValidationOutcomes == {"load_error", "valid", "invalid", "exception"}

\* a mutant of validate_parsed_document: an unexpected exception of the
\* validator is logged and the tree is accepted
ValidateAcceptOnException(outcome) == outcome \in {"valid", "exception"}

\* validate_parsed_document(data, schema): True only when validate returned
validate_parsed_document(outcome) == outcome = "valid"

\* lines 58-63 of _run
ToolValidate ==
  /\ pc = "parsed"
  /\ \E outcome \in ValidationOutcomes :
       /\ validation' = outcome
       /\ IF outcome = "load_error"
            THEN Raise("FileNotFoundError", <<>>) /\ result' = result
          ELSE IF ~validate_parsed_document(outcome)
            THEN Raise("ValueError", "schema") /\ result' = result
          ELSE /\ result' = Some(Tree)
               /\ pc' = "returned"
               /\ error' = error
  /\ UNCHANGED <<file, compile, peer, writes, idx, metadata, content, bibliography, bibliography_started,
                 current_list_items, current_list_num_id, written, run, first, scan>>

----------------------------------------------------------------------------
(* Two successive calls on the same file *)

\* a tree without the generated names of its image files
Structure(tree) ==
  [tree EXCEPT !.content =
     [k \in 1..Len(tree.content) |->
        IF tree.content[k].type = "image"
        THEN [tree.content[k] EXCEPT !.path = [dir |-> @.dir, ext |-> @.ext]]
        ELSE tree.content[k]]]

\* the extractor has returned; it is run again on the same file by a new
\* interpreter process (the order of list(set(embed_ids)) follows the hashes
\* of the ids, which are seeded per process), the image files of the first
\* run staying where they are
Rerun ==
  /\ pc = "parsed"
  /\ run = 1
  /\ run' = 2
  /\ first' = Some(Structure(Tree))
  /\ pc' = Dispatch(Ext)
  /\ idx' = 0
  /\ metadata' = NoMetadata
  /\ content' = <<>>
  /\ bibliography' = <<>>
  /\ bibliography_started' = FALSE
  /\ current_list_items' = <<>>
  /\ current_list_num_id' = None
  /\ scan' = NoScan
  /\ UNCHANGED <<file, compile, peer, writes, written, validation, result, error>>

----------------------------------------------------------------------------
(* Two calls at the same time *)

\* The second call is one of parse_docx_to_json.  The two calls share the
\* directory parsed_images and nothing else; a step of either is the
\* processing of one body node.

FullHead == <<TitlePara, AuthorPara, AbstractPara, KeywordsPara>>

\* the documents of two calls that run at the same time: pictures with and
\* without a caption, no picture, no title (the call fails), no package
ConcurrentDocx ==
  { File(TRUE, DotDocx, "docx", FullHead \o <<CaptionPara, ImagePara>>),
    File(TRUE, DotDocx, "docx", FullHead \o <<TwoImagePara>>),
    File(TRUE, DotDocx, "docx", FullHead \o <<ImagePara, ImagePara>>),
    File(TRUE, DotDocx, "docx", FullHead \o <<NativeItem, TablePara>>),
    File(TRUE, DotDocx, "docx", <<ImagePara>>),
    File(TRUE, DotDocx, "corrupt", <<>>) }

ConcurrentFiles ==
  ConcurrentDocx
  \cup { File(TRUE, DotTxt, "txt", NoiseBetween),
         File(TRUE, DotMd, "md", MdBodyMetadata),
         File(FALSE, DotDocx, "none", <<>>) }

PeerStart(f) == [NoPeer EXCEPT !.file = f, !.pc = "docx"]

InitConcurrent ==
  /\ file \in ConcurrentFiles
  /\ FreshCall
  /\ compile = NoCompile
  /\ peer \in {PeerStart(f) : f \in ConcurrentDocx}

PeerRaise(type, about) ==
  peer' = [peer EXCEPT !.pc = "raised", !.error = Some([type |-> type, about |-> about])]

\* lines 418-427, in the second call
PeerOpen ==
  /\ peer.pc = "docx"
  /\ IF peer.file.kind # "docx"
       THEN PeerRaise("PackageNotFoundError", peer.file.ext)
     ELSE LET m == DocxParseMetadata(peer.file.data)
          IN IF m.missing # ""
             THEN PeerRaise("ValueError", m.missing)
             ELSE peer' = [peer EXCEPT !.metadata = m.metadata, !.idx = 1, !.pc = "docx_body"]
  /\ UNCHANGED <<file, compile, pc, idx, metadata, content, bibliography, bibliography_started,
                 current_list_items, current_list_num_id, written, validation, result,
                 error, run, first, scan, writes>>

\* lines 443-516, in the second call
PeerParagraphStep ==
  /\ peer.pc = "docx_body"
  /\ peer.idx <= Len(peer.file.data)
  /\ peer.file.data[peer.idx].kind = "p"
  /\ \E order \in RidOrders(peer.file.data[peer.idx].runs) :
       \E uuids \in FreshNames(Len(ImageRids(order))) :
         LET images == _extract_images_from_paragraph(order, uuids, peer.idx)
         IN /\ peer' = [DocxParagraph(peer, peer.file.data[peer.idx], peer.idx, images)
                          EXCEPT !.idx = peer.idx + 1]
            /\ SaveAll(images)
  /\ UNCHANGED <<file, compile, pc, idx, metadata, content, bibliography, bibliography_started,
                 current_list_items, current_list_num_id, validation, result,
                 error, run, first, scan>>

\* lines 518-525, in the second call
PeerTableStep ==
  /\ peer.pc = "docx_body"
  /\ peer.idx <= Len(peer.file.data)
  /\ peer.file.data[peer.idx].kind = "tbl"
  /\ peer' = [DocxTable(peer, peer.file.data[peer.idx], peer.idx) EXCEPT !.idx = peer.idx + 1]
  /\ UNCHANGED <<file, compile, pc, idx, metadata, content, bibliography, bibliography_started,
                 current_list_items, current_list_num_id, written, validation, result,
                 error, run, first, scan, writes>>

\* lines 527-543, in the second call
PeerReturn ==
  /\ peer.pc = "docx_body"
  /\ peer.idx > Len(peer.file.data)
  /\ peer' = [DocxEnd(peer) EXCEPT !.pc = "parsed"]
  /\ UNCHANGED <<file, compile, pc, idx, metadata, content, bibliography, bibliography_started,
                 current_list_items, current_list_num_id, written, validation, result,
                 error, run, first, scan, writes>>

----------------------------------------------------------------------------
(* LaTeXCompilerTool._run and compile_latex_to_pdf *)

\* what json.loads makes of journal_template_files_json: nothing (the text is
\* no JSON), an object of template files, or a string
NotJson == [kind |-> "invalid", files |-> {}, path |-> ""]
JsonObject(files) == [kind |-> "object", files |-> files, path |-> ""]
JsonString(path) == [kind |-> "string", files |-> {}, path |-> path]

\* the directories that exist beside the temporary ones
ExistingDirs == {"templates"}

TemplateInputs ==
  { NotJson, JsonObject({}), JsonObject({"journal.cls"}),
    JsonString(""), JsonString("templates"), JsonString("missing") }

\* the invocations of the compiler in the order of compile_latex_to_pdf:
\* two passes, the bibliography run, two more passes
LastRun == 5
BibRun == 3

\* the machine the tool runs on: USE_DOCKER, the commands shutil.which finds,
\* the first invocation that does not exit with 0 (0 when every one does) and
\* how it ends, and whether the compiler leaves a main.pdf
Environments ==
  [use_docker : BOOLEAN,
   found : SUBSET {"docker", "latex", "bib"},
   fails_at : 0..LastRun,
   failure : {"code", "timeout"},
   pdf : BOOLEAN]

\* the temporary directory: whether it exists, and the files in it
NoTemp == [made |-> FALSE, main_tex |-> FALSE, pdf |-> FALSE]

CompileStart(templates_json, needs_bibliography, env) ==
  [pc |-> "start", templates_json |-> templates_json,
   needs_bibliography |-> needs_bibliography, env |-> env,
   templates |-> None, temp_dir |-> None, tmp |-> NoTemp, at |-> 0,
   result |-> None, response |-> None, error |-> None]

InitCompile ==
  /\ file = File(FALSE, <<>>, "none", <<>>)
  /\ FreshCall
  /\ peer = NoPeer
  /\ compile \in {CompileStart(j, b, e) : j \in TemplateInputs, b \in BOOLEAN, e \in Environments}

\* CompileResult(False, error_log=...)
Failure(error_log) ==
  [success |-> FALSE, pdf_path |-> None, temp_dir |-> None, error_log |-> Some(error_log)]

\* CompileResult(True, pdf_path=pdf_path, temp_dir=temp_dir)
Success(pdf_path, temp_dir) ==
  [success |-> TRUE, pdf_path |-> Some(pdf_path), temp_dir |-> Some(temp_dir), error_log |-> None]

\* lines 71-74 of LaTeXCompilerTool._run
CompilerRun ==
  /\ compile.pc = "start"
  /\ compile' = IF compile.templates_json.kind = "invalid"
                THEN [compile EXCEPT !.pc = "raised", !.error = Some("ValueError")]
                ELSE [compile EXCEPT !.pc = "setup", !.templates = Some(compile.templates_json)]
  /\ UNCHANGED <<file, pc, idx, metadata, content, bibliography, bibliography_started,
                 current_list_items, current_list_num_id, written, validation, result,
                 error, run, first, scan, peer, writes>>

\* not template_dir
TemplateFalsy(t) ==
  IF t.kind = "object" THEN t.files = {} ELSE t.path = ""

\* _setup_compile_env(latex_content, template_dir), called at line 102: the
\* exception it raises ("" when it returns); os.path.isdir raises TypeError
\* for a dict
SetupError(t) ==
  IF TemplateFalsy(t) THEN "ValueError"
  ELSE IF t.kind = "object" THEN "TypeError"
  ELSE IF t.path \notin ExistingDirs THEN "FileNotFoundError"
  ELSE ""

\* lines 100-104 and 170-171 of compile_latex_to_pdf with _setup_compile_env:
\* mkdtemp makes the directory before the template directory is looked at
SetupCompileEnv ==
  /\ compile.pc = "setup"
  /\ LET t == compile.templates[1]
         made == [compile EXCEPT !.tmp.made = TRUE]
     IN compile' = IF SetupError(t) # ""
                   THEN [made EXCEPT !.pc = "compiled", !.result = Some(Failure(SetupError(t)))]
                   ELSE [made EXCEPT !.pc = "latex", !.tmp.main_tex = TRUE,
                                     !.temp_dir = Some("tmp"), !.at = 1]
  /\ UNCHANGED <<file, pc, idx, metadata, content, bibliography, bibliography_started,
                 current_list_items, current_list_num_id, written, validation, result,
                 error, run, first, scan, peer, writes>>

\* _invoke_latex(command, temp_dir) for the invocation c.at: the error log of
\* the failure, "" when the command exits with 0
InvokeError(c, command) ==
  IF c.env.use_docker /\ "docker" \notin c.env.found THEN "RuntimeError"
  ELSE IF ~c.env.use_docker /\ command \notin c.env.found THEN "RuntimeError"
  ELSE IF c.env.fails_at = c.at
    THEN (IF c.env.failure = "timeout" THEN "TimeoutExpired" ELSE "output")
  ELSE ""

\* lines 130-133, 146-148 and 155-161: one pass of the LaTeX command
LatexPass ==
  /\ compile.pc = "latex"
  /\ compile.at # BibRun
  /\ LET e == InvokeError(compile, "latex")
         ran == [compile EXCEPT !.tmp.pdf = compile.env.pdf]
         next == IF compile.at = 2 /\ ~compile.needs_bibliography THEN 4 ELSE compile.at + 1
     IN compile' = IF e # ""
                     THEN [compile EXCEPT !.pc = "compiled", !.result = Some(Failure(e))]
                   ELSE IF compile.at = LastRun THEN [ran EXCEPT !.pc = "check"]
                   ELSE [ran EXCEPT !.at = next]
  /\ UNCHANGED <<file, pc, idx, metadata, content, bibliography, bibliography_started,
                 current_list_items, current_list_num_id, written, validation, result,
                 error, run, first, scan, peer, writes>>

\* lines 140-144: the bibliography run
BibPass ==
  /\ compile.pc = "latex"
  /\ compile.at = BibRun
  /\ LET e == InvokeError(compile, "bib")
     IN compile' = IF e # ""
                   THEN [compile EXCEPT !.pc = "compiled", !.result = Some(Failure(e))]
                   ELSE [compile EXCEPT !.at = BibRun + 1]
  /\ UNCHANGED <<file, pc, idx, metadata, content, bibliography, bibliography_started,
                 current_list_items, current_list_num_id, written, validation, result,
                 error, run, first, scan, peer, writes>>

\* lines 163-167
CheckPdf ==
  /\ compile.pc = "check"
  /\ compile' = [compile EXCEPT
                   !.pc = "compiled",
                   !.result = IF compile.tmp.pdf
                              THEN Some(Success("tmp/main.pdf", compile.temp_dir[1]))
                              ELSE Some(Failure("no PDF"))]
  /\ UNCHANGED <<file, pc, idx, metadata, content, bibliography, bibliography_started,
                 current_list_items, current_list_num_id, written, validation, result,
                 error, run, first, scan, peer, writes>>

\* lines 76-90 of LaTeXCompilerTool._run, with cleanup_temp_dir
CompilerReturn ==
  /\ compile.pc = "compiled"
  /\ LET r == compile.result[1]
     IN compile' =
          IF r.success
            THEN [compile EXCEPT !.pc = "returned",
                    !.response = Some([message |-> "success", pdf_path |-> r.pdf_path,
                                       temp_dir |-> r.temp_dir, error_log |-> None])]
          ELSE [compile EXCEPT !.pc = "returned",
                  !.tmp = IF r.temp_dir # None THEN NoTemp ELSE compile.tmp,
                  !.response = Some([message |-> "failure", pdf_path |-> None,
                                     temp_dir |-> None, error_log |-> r.error_log])]
  /\ UNCHANGED <<file, pc, idx, metadata, content, bibliography, bibliography_started,
                 current_list_items, current_list_num_id, written, validation, result,
                 error, run, first, scan, peer, writes>>

----------------------------------------------------------------------------
(* Specification *)

Init == InitDocx \/ InitTxt \/ InitMd \/ InitOther

Next ==
  \/ ToolRun
  \/ DocxOpen
  \/ DocxParagraphStep
  \/ DocxTableStep
  \/ DocxReturn
  \/ TxtOpen
  \/ TxtLine
  \/ TxtReturn
  \/ MdOpen
  \/ MdElement
  \/ MdReturn
  \/ ToolValidate

Spec == Init /\ [][Next]_vars

\* the same, with a second call after the first
NextTwice == Next \/ Rerun

SpecTwice == Init /\ [][NextTwice]_vars

\* two calls at the same time, in any interleaving of their steps
NextConcurrent ==
  \/ Next
  \/ PeerOpen
  \/ PeerParagraphStep
  \/ PeerTableStep
  \/ PeerReturn

SpecConcurrent == InitConcurrent /\ [][NextConcurrent]_vars

\* a call of the compiler tool
NextCompile ==
  \/ CompilerRun
  \/ SetupCompileEnv
  \/ LatexPass
  \/ BibPass
  \/ CheckPdf
  \/ CompilerReturn

SpecCompile == InitCompile /\ [][NextCompile]_vars

----------------------------------------------------------------------------
(* Properties *)

\* an extractor has returned its tree to _run
Extracted == pc \in {"parsed", "returned"}

\* the entry appended when no reference was found
Placeholder == BibEntry(<<>>, <<>>)

\* C1: a Document that an extractor returns has a non-empty title, at least
\* one author and a non-empty abstract (else the call failed with a
\* missing-field error and returned nothing).  parse_txt_to_json and
\* parse_md_to_json return whatever their metadata functions recovered.
C1_MandatoryMetadata ==
  Extracted =>
    /\ metadata.title # <<>>
    /\ metadata.authors # <<>>
    /\ metadata.abstract # <<>>

\* C2: the bibliography an extractor returns has at least one entry; when no
\* reference entry was found it is exactly the one placeholder entry, and the
\* placeholder never stands beside entries that were found.
C2_BibliographyNonEmpty ==
  Extracted =>
    /\ Len(bibliography) >= 1
    /\ (\E k \in DOMAIN bibliography : bibliography[k] = Placeholder)
         => bibliography = <<Placeholder>>
    /\ (file.kind = "docx" /\ ~bibliography_started) => bibliography = <<Placeholder>>
    /\ (file.kind = "txt" /\ TxtParseBibliography(scan.bibliography_text) = <<>>)
         => bibliography = <<Placeholder>>
    /\ (file.kind = "md" /\ _parse_bibliography_from_md(scan.bibliography_text,
                                                       scan.bibliography_nodes) = <<>>)
         => bibliography = <<Placeholder>>

\* a docx file with a references heading and nothing under it was extracted
C2_Witness ==
  /\ pc = "parsed"
  /\ file.kind = "docx"
  /\ bibliography_started
  /\ bibliography = <<Placeholder>>

\* C3: _run returns a document only if validate_parsed_document accepted the
\* assembled tree, and then it returns that tree; when the schema cannot be
\* loaded, the tree is invalid or the validator raises, _run raises and
\* returns nothing.
C3_ValidatedOrNothing ==
  /\ pc = "returned" => (validation = "valid" /\ result = Some(Tree))
  /\ result # None => pc = "returned"
  /\ validation \in {"load_error", "invalid", "exception"}
       => (pc = "raised" /\ error # None /\ result = None)

\* the validator raised an unexpected exception on a tree with content
C3_Witness ==
  /\ validation = "exception"
  /\ content # <<>>
  /\ pc = "raised"
  /\ result = None

\* the extension of the input path is none of .docx, .md, .txt, compared
\* case-insensitively
UnsupportedExtension == LowerStr(file.ext) \notin {DotDocx, DotMd, DotTxt}

NotImplementedNamingExtension ==
  error = Some([type |-> "NotImplementedError", about |-> LowerStr(file.ext)])

NothingExtracted ==
  /\ metadata = NoMetadata
  /\ content = <<>>
  /\ bibliography = <<>>
  /\ written = {}
  /\ scan = NoScan
  /\ validation = ""
  /\ result = None

\* C4 as stated: for any input path with an unsupported extension, _run fails
\* with a NotImplementedError naming the extension.  A path that does not
\* exist fails the existence check first.
C4_AnyPath ==
  (UnsupportedExtension /\ pc # "start") =>
    (pc = "raised" /\ NotImplementedNamingExtension /\ NothingExtracted)

\* C4, amended: for any existing input path with an unsupported extension,
\* _run fails with a NotImplementedError naming the (lower-cased) extension,
\* and no extractor and no schema validation is run.
C4_ExistingPath ==
  (file.exists /\ UnsupportedExtension) =>
    /\ pc \in {"start", "raised"}
    /\ pc = "raised" => NotImplementedNamingExtension
    /\ NothingExtracted

\* _run was given an existing .PDF file and has raised
C4_Witness ==
  /\ file.exists
  /\ file.ext = <<".","P","D","F">>
  /\ pc = "raised"
  /\ error = Some([type |-> "NotImplementedError", about |-> <<".","p","d","f">>])

\* the body node i is a paragraph with an embedded image
ImageBearing(i) ==
  /\ file.data[i].kind = "p"
  /\ \E r \in DOMAIN file.data[i].runs : \E rid \in file.data[i].runs[r] : IsImageRid(rid)

\* the body node i is a paragraph whose text matches the caption pattern
CaptionParagraph(i) ==
  /\ file.data[i].kind = "p"
  /\ CAPTION_PATTERN(Strip(file.data[i].text))

\* C5: for a docx paragraph matching the caption pattern and immediately
\* followed by an image-bearing node, the output has exactly one block of
\* that image whose caption is the paragraph's full text, and no Paragraph
\* block of the caption paragraph.  (The block is looked for under the type
\* "image" the extractor gives it as well as under "figure".)
C5_CaptionConsumed ==
  (file.kind = "docx" /\ pc = "parsed") =>
    \A i \in 1..(Len(file.data) - 1) :
      (CaptionParagraph(i) /\ ImageBearing(i + 1)) =>
        /\ Cardinality({k \in DOMAIN content :
                          /\ content[k].type \in {"figure", "image"}
                          /\ content[k].src = i + 1
                          /\ content[k].caption = Strip(file.data[i].text)}) = 1
        /\ ~\E k \in DOMAIN content :
              /\ content[k].type = "paragraph"
              /\ content[k].src = i

\* C6: when a docx table is reached and the block emitted immediately before
\* it is a Paragraph matching the caption pattern, the Table block gets that
\* paragraph's text as caption and takes the paragraph's place in content:
\* the paragraph is removed and the text survives exactly once.
C6_TableCaption ==
  [][ ( /\ pc = "docx_body"
        /\ idx <= Len(file.data)
        /\ file.data[idx].kind = "tbl"
        /\ current_list_items = <<>>
        /\ content # <<>>
        /\ content[Len(content)].type = "paragraph"
        /\ CAPTION_PATTERN(Strip(content[Len(content)].text)) )
      => LET caption == content[Len(content)]
             n == Len(content)
         IN /\ Len(content') = n
            /\ SubSeq(content', 1, n - 1) = SubSeq(content, 1, n - 1)
            /\ content'[n].type = "table"
            /\ content'[n].src = idx
            /\ content'[n].caption = Strip(caption.text)
            /\ ~\E k \in 1..n : /\ content'[k].type = "paragraph"
                                /\ content'[k].src = caption.src ]_vars

\* a table was emitted with the text of the caption paragraph before it, and
\* the paragraph is gone
C6_Witness ==
  /\ file.kind = "docx"
  /\ \E k \in DOMAIN content :
       /\ content[k].type = "table"
       /\ content[k].caption = Strip(TableCaptionPara.text)
       /\ content[k].src > 1
       /\ file.data[content[k].src - 1] = TableCaptionPara
       /\ ~\E j \in DOMAIN content : /\ content[j].type = "paragraph"
                                     /\ content[j].src = content[k].src - 1

\* C7: no List block of the docx extractor holds an item of a native list
\* (a paragraph with a numPr, whatever its numId) together with an item of a
\* manually numbered paragraph.
C7_ListsNeverMerged ==
  (file.kind = "docx" /\ pc = "parsed") =>
    \A k \in DOMAIN content :
      content[k].type = "list" =>
        ~\E a, b \in DOMAIN content[k].items :
            /\ file.data[content[k].items[a].src].num # <<>>
            /\ file.data[content[k].items[b].src].num = <<>>

BlockTypes ==
  {"heading", "paragraph", "list", "table", "figure", "code", "formula_block",
   "reference", "blockquote", "separator"}

RECURSIVE TypeOk(_)
TypeOk(block) ==
  /\ block.type \in BlockTypes
  /\ block.type = "blockquote" => \A k \in DOMAIN block.children : TypeOk(block.children[k])

\* C8: every block of content, the children of a blockquote included, has a
\* type among heading, paragraph, list, table, figure, code, formula_block,
\* reference, blockquote, separator.
C8_BlockTypes ==
  Extracted => \A k \in DOMAIN content : TypeOk(content[k])

RECURSIVE LevelOk(_)
LevelOk(block) ==
  /\ block.type = "heading" => block.level \in 1..6
  /\ block.type = "blockquote" => \A k \in DOMAIN block.children : LevelOk(block.children[k])

\* C9: every Heading block an extractor emits has a level in 1..6.
C9_HeadingLevels ==
  Extracted => \A k \in DOMAIN content : LevelOk(content[k])

\* C10: a second run of the extractor on the same file gives a tree that
\* differs from the first at most in the generated names of image files.
C10_SameStructure ==
  (pc = "parsed" /\ run = 2) => Structure(Tree) = first[1]

\* a line that consists only of digits
DigitsOnly(line) == Strip(line) # <<>> /\ Span(Strip(line), Digit) = Len(Strip(line))
NotDigitsOnly(line) == ~DigitsOnly(line)

\* the locals of _parse_content before its loop
TxtStart ==
  [content |-> <<>>, buffer |-> <<>>, current_type |-> None, code_language |-> <<>>,
   in_code_block |-> FALSE]

\* _parse_content on the lines of the main text: the loop and the last flush
RECURSIVE TxtScan(_, _)
TxtScan(lines, st) ==
  IF lines = <<>> THEN flush_buffer(st)
  ELSE TxtScan(Tail(lines), TxtLineStep(st, Head(lines)))

\* the lines of the text of a block
TextLines(block) ==
  IF block.type \in {"paragraph", "heading", "caption", "code"} THEN Split(block.text, {"\n"})
  ELSE IF block.type = "table" THEN Split(block.raw, {"\n"})
  ELSE <<>>

\* C11: the plain text extractor drops a line that consists only of digits:
\* the content is what it would be without such lines, no line of the text of
\* an emitted block is such a line, and a digits-only line between two
\* paragraphs set apart by blank lines leaves exactly the two Paragraph blocks.
C11_DigitsDropped ==
  (file.kind = "txt" /\ pc = "parsed") =>
    /\ content = TxtScan(SelectSeq(scan.lines, NotDigitsOnly), TxtStart).content
    /\ \A k \in DOMAIN content :
         \A i \in DOMAIN TextLines(content[k]) : ~DigitsOnly(TextLines(content[k])[i])
    /\ file.data = NoiseBetween =>
         content = << [type |-> "paragraph", text |-> NoiseBetween[1]],
                      [type |-> "paragraph", text |-> NoiseBetween[5]] >>

\* the file with a page number between two paragraphs was extracted
C11_Witness ==
  /\ pc = "parsed"
  /\ file.kind = "txt"
  /\ \E i \in DOMAIN scan.lines : DigitsOnly(scan.lines[i])
  /\ Len(content) = 2
  /\ content[1].type = "paragraph" /\ content[2].type = "paragraph"

\* C12: for a Markdown file without front matter whose body is a level-1
\* heading, an author line, an "Abstract: ..." line and a "Keywords: a, b"
\* line, the extractor recovers the heading text as title, exactly one author
\* and the keywords a, b in order.  Without front matter
\* _parse_metadata_from_md leaves title and authors empty; only the keywords
\* are looked for in the body.
C12_BodyMetadata ==
  (pc = "parsed" /\ file.kind = "md" /\ file.data = MdBodyMetadata) =>
    /\ metadata.title = <<"T","i","t","l","e">>
    /\ Len(metadata.authors) = 1
    /\ metadata.keywords = << <<"a">>, <<"b">> >>

PeerTree ==
  [metadata |-> peer.metadata, content |-> peer.content, bibliography |-> peer.bibliography]

\* the locals with which the loop of parse_docx_to_json starts
DocxStart ==
  [content |-> <<>>, bibliography |-> <<>>, bibliography_started |-> FALSE,
   current_list_items |-> <<>>, current_list_num_id |-> None]

\* the locals a call of parse_docx_to_json that runs alone can end with, from
\* body node i on (the names of the image files left aside)
RECURSIVE DocxAlone(_, _, _)
DocxAlone(doc, i, st) ==
  IF i > Len(doc) THEN {DocxEnd(st)}
  ELSE IF doc[i].kind = "tbl" THEN DocxAlone(doc, i + 1, DocxTable(st, doc[i], i))
  ELSE UNION { DocxAlone(doc, i + 1,
                 DocxParagraph(st, doc[i], i,
                   _extract_images_from_paragraph(order, [k \in 1..Len(ImageRids(order)) |-> 0], i)))
               : order \in RidOrders(doc[i].runs) }

\* the trees parse_docx_to_json can return for a file when it runs alone
AloneTrees(f) ==
  { Structure([metadata |-> DocxParseMetadata(f.data).metadata, content |-> st.content,
               bibliography |-> st.bibliography]) : st \in DocxAlone(f.data, 1, DocxStart) }

\* the exception parse_docx_to_json raises for a file when it runs alone
AloneError(f) ==
  IF f.kind # "docx" THEN Some([type |-> "PackageNotFoundError", about |-> f.ext])
  ELSE IF DocxParseMetadata(f.data).missing # ""
    THEN Some([type |-> "ValueError", about |-> DocxParseMetadata(f.data).missing])
  ELSE None

\* C13: in any interleaving of two calls, no path of parsed_images is opened
\* for writing twice (by one call or by both), and each call of
\* parse_docx_to_json ends as it can end when it runs alone: with the same
\* exception, or with one of the same trees (names of image files apart),
\* whether the other call fails or not.
C13_NoSharedPath ==
  /\ \A p \in DOMAIN writes : writes[p] = 1
  /\ peer.pc = "raised" => peer.error = AloneError(peer.file)
  /\ peer.pc = "parsed" =>
       (AloneError(peer.file) = None /\ Structure(PeerTree) \in AloneTrees(peer.file))
  /\ (file.exists /\ Dispatch(Ext) = "docx") =>
       /\ (pc = "raised" /\ validation = "") => error = AloneError(file)
       /\ pc = "parsed" => (AloneError(file) = None /\ Structure(Tree) \in AloneTrees(file))
  /\ (file.kind = "txt" /\ pc = "parsed") => content = TxtScan(scan.lines, TxtStart).content

\* both calls have returned a tree with a picture, and one call has saved two
\* pictures
C13_Witness ==
  /\ pc = "parsed"
  /\ peer.pc = "parsed"
  /\ \E k \in DOMAIN content : content[k].type = "image"
  /\ \E k \in DOMAIN peer.content : peer.content[k].type = "image"
  /\ Cardinality(DOMAIN writes) >= 3

\* the machine lets every invocation of the compiler exit with 0 and the
\* compiler leaves a main.pdf
CompilerWorks(env) ==
  /\ env.fails_at = 0
  /\ env.pdf
  /\ IF env.use_docker THEN "docker" \in env.found ELSE {"latex", "bib"} \subseteq env.found

\* C14: for any LaTeX source and any set of template files, the empty set
\* included, when every compiler pass exits with 0 and main.pdf is produced,
\* LaTeXCompilerTool._run reports success with the path of an existing PDF
\* and an existing temporary directory.  compile_latex_to_pdf takes the set
\* of template files for the path of a template directory.
C14_CompileSuccess ==
  ( /\ compile.pc = "returned"
    /\ compile.templates_json.kind = "object"
    /\ CompilerWorks(compile.env) ) =>
      /\ compile.response[1].message = "success"
      /\ compile.response[1].pdf_path # None /\ compile.tmp.pdf
      /\ compile.response[1].temp_dir # None /\ compile.tmp.made

\* the body nodes a block of the docx extractor is built from
Sources(block) ==
  IF block.type = "list" THEN {block.items[k].src : k \in DOMAIN block.items}
  ELSE {block.src}

\* C15: the docx extractor keeps the order of the document: of two blocks of
\* content built from different body nodes, the one from the earlier node
\* comes first, also when a paragraph with a picture follows a list that is
\* still open.  The pictures of a paragraph are appended before the open
\* list is flushed.
C15_DocumentOrder ==
  (file.kind = "docx" /\ pc = "parsed") =>
    \A a, b \in DOMAIN content :
      a < b => \A x \in Sources(content[a]), y \in Sources(content[b]) : x <= y

\* the body node i is a paragraph with text that starts the bibliography
BoundaryNode(i) ==
  /\ file.data[i].kind = "p"
  /\ ReferencesMarker(Strip(file.data[i].text))

\* the body node i stands before the references boundary
BeforeBoundary(i) == \A j \in 1..i : ~BoundaryNode(j)

\* the body node i is a paragraph with text that belongs to a native list or
\* is numbered by hand
ListItemNode(i) ==
  /\ file.data[i].kind = "p"
  /\ Strip(file.data[i].text) # <<>>
  /\ \/ _get_list_info(file.data[i]) # None
     \/ _detect_manual_list_item(Strip(file.data[i].text)) # None

\* the places of content where an item of body node i stands
ItemPlaces(i) ==
  { <<k, j>> \in (DOMAIN content) \X (1..Len(file.data)) :
      /\ content[k].type = "list"
      /\ j \in DOMAIN content[k].items
      /\ content[k].items[j].src = i }

\* C16: every list-item paragraph of a docx before the references boundary
\* is, once it has been read, an item of exactly one List block or of the
\* open run, never both; the items of a block stand in document order; when
\* parse_docx_to_json returns every such paragraph is in exactly one List
\* block and the open run is empty.
C16_ListItemsOnce ==
  (file.kind = "docx" /\ pc \in {"docx_body", "parsed"}) =>
    /\ \A i \in 1..Len(file.data) :
         (ListItemNode(i) /\ BeforeBoundary(i) /\ i < idx) =>
           Cardinality(ItemPlaces(i))
             + Cardinality({j \in DOMAIN current_list_items : current_list_items[j].src = i})
           = 1
    /\ \A k \in DOMAIN content :
         content[k].type = "list" =>
           \A a, b \in DOMAIN content[k].items :
             a < b => content[k].items[a].src < content[k].items[b].src
    /\ pc = "parsed" => (current_list_items = <<>> /\ current_list_num_id = None)

\* a docx with two List blocks, one of them with two items, was extracted
C16_Witness ==
  /\ file.kind = "docx"
  /\ pc = "parsed"
  /\ \E k, l \in DOMAIN content :
       /\ k # l
       /\ content[k].type = "list" /\ Len(content[k].items) >= 2
       /\ content[l].type = "list"

\* the text is "References" or its Chinese form, whatever the case
StandaloneReferences(text) == LowerStr(Strip(text)) \in ReferencesWords

\* the body nodes of a docx that are such a paragraph
StandaloneBoundaries ==
  {i \in 1..Len(file.data) : file.data[i].kind = "p" /\ StandaloneReferences(file.data[i].text)}

\* the lines of a text file that are such a line
StandaloneLines == {i \in 1..Len(file.data) : StandaloneReferences(file.data[i])}

\* C17 for the docx extractor: the bibliography starts only at a paragraph
\* whose text is "References", no block of content is built from a node
\* after that paragraph, and every entry of the bibliography is the text of
\* a paragraph after it.
C17_DocxPartition ==
  (file.kind = "docx" /\ pc = "parsed") =>
    /\ bibliography_started <=> StandaloneBoundaries # {}
    /\ \A k \in DOMAIN content :
         \A x \in Sources(content[k]) : \A b \in StandaloneBoundaries : x < b
    /\ \A k \in DOMAIN bibliography :
         bibliography[k] # Placeholder =>
           \E i \in 1..Len(file.data) :
             /\ \E b \in StandaloneBoundaries : b < i
             /\ file.data[i].kind = "p"
             /\ bibliography[k].raw = Strip(file.data[i].text)

\* C17 for the plain text extractor: the main text is what stands before the
\* first line "References", the bibliography text what stands after it.
C17_TxtPartition ==
  (file.kind = "txt" /\ pc \in {"txt_body", "parsed"}) =>
    IF StandaloneLines = {}
    THEN /\ JoinLines(scan.lines) = Strip(JoinLines(file.data))
         /\ scan.bibliography_text = <<>>
    ELSE LET b == Min(StandaloneLines)
         IN /\ JoinLines(scan.lines) = Strip(JoinLines(SubSeq(file.data, 1, b - 1)))
            /\ scan.bibliography_text = Strip(JoinLines(SubSeq(file.data, b + 1, Len(file.data))))

\* C17: the references boundary partitions the document: only a standalone
\* line or heading "References" starts the bibliography; what stands before
\* it goes to content only, what stands after it to the bibliography only.
\* parse_docx_to_json appends tables and pictures to content whether the
\* bibliography has started or not.
C17_BoundaryPartition == C17_DocxPartition /\ C17_TxtPartition


\* the body node i is a paragraph with text whose style name carries a
\* heading level
HeadingStyled(i) ==
  /\ file.data[i].kind = "p"
  /\ Strip(file.data[i].text) # <<>>
  /\ DocxGuessHeadingLevel(file.data[i].style) # None

\* C18: in the docx extractor every non-empty paragraph before the references
\* boundary whose style name is "Heading N" (or its Chinese form) yields a
\* Heading block of level N, whatever its text and whatever list property
\* it carries
C18_HeadingByStyle ==
  (file.kind = "docx" /\ pc = "parsed") =>
    \A i \in 1..Len(file.data) :
      (HeadingStyled(i) /\ BeforeBoundary(i)) =>
        \E k \in DOMAIN content :
          /\ content[k].type = "heading"
          /\ content[k].src = i
          /\ content[k].level = DocxGuessHeadingLevel(file.data[i].style)[1]

\* the lines of the bibliography text of a text file
BibLines == Split(scan.bibliography_text, {"\n"})
\* the lines that open with a citation number
BibStarts == {i \in 1..Len(BibLines) : EntryStart(Strip(BibLines[i])).match}
\* the last line of the entry that opens at line i
BibEnd(i) == Min({j \in BibStarts : j > i} \cup {Len(BibLines) + 1}) - 1
\* the k-th line that opens with a citation number
BibStartAt(k) == CHOOSE i \in BibStarts : Cardinality({j \in BibStarts : j <= i}) = k

\* C19: in the plain-text bibliography splitter, for a bibliography text
\* without blank lines whose first line opens with a citation number, there
\* is one entry per line that opens with a citation number, the raw of an
\* entry is that line with the continuation lines after it, and its id is
\* its own leading number, whatever the length of the text
C19_EntriesPerNumber ==
  (/\ file.kind = "txt" /\ pc = "parsed"
   /\ scan.bibliography_text # <<>>
   /\ Len(SplitBlank(scan.bibliography_text)) = 1
   /\ 1 \in BibStarts) =>
    /\ Len(bibliography) = Cardinality(BibStarts)
    /\ \A k \in DOMAIN bibliography :
         LET i == BibStartAt(k)
         IN /\ bibliography[k].raw = Strip(JoinLines(SubSeq(BibLines, i, BibEnd(i))))
            /\ bibliography[k].id = EntryStart(Strip(BibLines[i])).id

\* the file cannot be read as what its extension says
Unreadable == file.kind \in {"corrupt", "undecodable"}
\* the front matter of a Markdown file is not YAML
BrokenFrontMatter ==
  /\ file.kind = "md"
  /\ \E k \in DOMAIN file.data :
       file.data[k] = MdFront(YamlBroken) /\ YamlLoad(YamlBroken) = YError
\* a drawing of a docx paragraph refers to a part the package does not have
UnresolvableImage ==
  /\ file.kind = "docx"
  /\ \E i \in DOMAIN file.data : \E r \in DOMAIN file.data[i].runs :
       \E rid \in file.data[i].runs[r] : rid \notin DOMAIN RelatedParts

\* C20: malformed or unreadable input is never silently swallowed: when the
\* file is unreadable, its Markdown front matter cannot be parsed or a docx
\* picture cannot be resolved, the call fails and no Document is built
\* without the failed part
C20_NeverSwallowed ==
  (Unreadable \/ BrokenFrontMatter \/ UnresolvableImage) =>
    /\ pc \notin {"parsed", "returned"}
    /\ result = None

\* length of the abstract marker a line opens with, 0 when it opens with none
AbstractMarkerLen(line) ==
  IF StartsWith(LowerStr(line), AbstractWord) THEN Len(AbstractWord)
  ELSE IF line # <<>> /\ line[1] = "U+6458" /\ AfterZhAbstract(line) # 0
            /\ AfterZhAbstract(line) = Span(Drop(line, 1), Space) + 3
    THEN AfterZhAbstract(line) - 1
  ELSE 0
\* what a marker line says after the marker and its colon
AfterAbstractMarker(line) ==
  LET r == LStrip(Drop(line, AbstractMarkerLen(line)))
  IN Strip(IF r # <<>> /\ r[1] \in {":", "U+FF1A"} THEN Drop(r, 1) ELSE r)
\* the abstract of a sequence of lines with a marker line: the text from the
\* marker to the first blank line or Keywords marker after it
AbstractUpToBlank(lines) ==
  LET a == Min({i \in DOMAIN lines : AbstractMarkerLen(Strip(lines[i])) > 0})
      e == Min({j \in (a + 1)..Len(lines) :
                  Strip(lines[j]) = <<>> \/ KeywordsMarker(Strip(lines[j]))}
               \cup {Len(lines) + 1})
  IN Strip(JoinLines(<<AfterAbstractMarker(Strip(lines[a]))>> \o SubSeq(lines, a + 1, e - 1)))
\* the texts of the paragraphs of a docx body
ParagraphTexts == [i \in DOMAIN Paragraphs(file.data) |-> Strip(Paragraphs(file.data)[i].text)]
HasAbstractMarker(lines) == \E i \in DOMAIN lines : AbstractMarkerLen(Strip(lines[i])) > 0

C21_DocxAbstract ==
  (file.kind = "docx" /\ pc = "parsed" /\ HasAbstractMarker(ParagraphTexts)) =>
    metadata.abstract = AbstractUpToBlank(ParagraphTexts)
C21_TxtAbstract ==
  (file.kind = "txt" /\ pc = "parsed" /\ HasAbstractMarker(file.data)) =>
    metadata.abstract = AbstractUpToBlank(file.data)

\* C21: the recovered abstract is only the text between the Abstract marker
\* and the first following blank line or Keywords marker; a docx document
\* without a Keywords marker does not get the paragraphs after a blank
\* paragraph appended to its abstract
C21_AbstractUpToBlank == C21_DocxAbstract /\ C21_TxtAbstract

\* the paragraphs with text that carry a Title style
TitleStyled ==
  {i \in DOMAIN Paragraphs(file.data) :
     /\ ParagraphTexts[i] # <<>>
     /\ StartsWith(LowerStr(Paragraphs(file.data)[i].style), <<"t","i","t","l","e">>)}
\* the paragraphs with text
WithText == {i \in DOMAIN Paragraphs(file.data) : ParagraphTexts[i] # <<>>}

\* C22: in the docx metadata extractor the title is the text of the first
\* non-empty paragraph with a Title style, wherever it stands; only when
\* there is none is it the first non-empty paragraph
C22_TitleByStyle ==
  (file.kind = "docx" /\ pc = "parsed") =>
    metadata.title = IF TitleStyled # {} THEN ParagraphTexts[Min(TitleStyled)]
                     ELSE IF WithText # {} THEN ParagraphTexts[Min(WithText)]
                     ELSE <<>>

\* the reference markers of the blocks of content
ReportedMarkers ==
  {content[k].marker : k \in {j \in DOMAIN content : content[j].type = "reference_marker"}}
  \cup UNION {{content[k].reference_markers[q] : q \in DOMAIN content[k].reference_markers} :
              k \in {j \in DOMAIN content : "reference_markers" \in DOMAIN content[j]}}
\* a marker without the brackets around it
Unbracketed(marker) ==
  IF Len(marker) >= 2 /\ marker[1] = "[" /\ marker[Len(marker)] = "]"
  THEN SubSeq(marker, 2, Len(marker) - 1) ELSE marker
\* the marker is one of "[ ]", "[x]", "[X]"
TaskLooking(marker) == Unbracketed(marker) \in {<<" ">>, <<"x">>, <<"X">>}
\* the marker is a numeric one, not an author-year one
NumericMarker(marker) == marker # <<>> /\ marker[1] # "("

\* C23: in every extractor no reference marker reported for a paragraph is
\* a task-list-looking token "[ ]", "[x]" or "[X]", and every numeric marker
\* reported has at least one digit
C23_NoTaskMarkers ==
  pc = "parsed" =>
    \A marker \in ReportedMarkers :
      /\ ~TaskLooking(marker)
      /\ NumericMarker(marker) => \E q \in DOMAIN marker : marker[q] \in Digit

\* the fence lines of the main text
FenceLines == {i \in DOMAIN scan.lines : _is_code_fence(scan.lines[i])}
\* line i stands after an opening fence and before the next fence
Fenced(i) ==
  /\ i \notin FenceLines
  /\ Cardinality({j \in FenceLines : j < i}) % 2 = 1
\* line i begins with four spaces or a tab
IndentedAt(i) ==
  \/ StartsWith(scan.lines[i], <<" ", " ", " ", " ">>)
  \/ StartsWith(scan.lines[i], <<"\t">>)

\* C24: in the plain text extractor every line of an emitted Code block
\* stood between an opening fence and the next fence or began with four
\* spaces or a tab; text after a closed fenced block or after an indented
\* code line is not emitted as code
C24_CodeLinesOnly ==
  (file.kind = "txt" /\ pc = "parsed") =>
    \A k \in DOMAIN content :
      content[k].type = "code" =>
        \A q \in DOMAIN TextLines(content[k]) :
          \E i \in DOMAIN scan.lines :
            /\ Fenced(i) \/ IndentedAt(i)
            /\ Strip(scan.lines[i]) = Strip(TextLines(content[k])[q])

\* the pairs of an opening fence and the fence that closes it
FencePairs ==
  {p \in FenceLines \X FenceLines :
     /\ p[1] < p[2]
     /\ Cardinality({j \in FenceLines : j < p[1]}) % 2 = 0
     /\ \A j \in FenceLines : ~(p[1] < j /\ j < p[2])}

\* C25: in the plain text extractor the lines between an opening fence and
\* its closing fence are, in order, the text of one Code block: none is
\* dropped and none is classified as something else
C25_FencedLinesKept ==
  (file.kind = "txt" /\ pc = "parsed") =>
    \A p \in FencePairs :
      LET text == Strip(JoinLines(SubSeq(scan.lines, p[1] + 1, p[2] - 1)))
      IN text # <<>> =>
           \E k \in DOMAIN content : content[k].type = "code" /\ content[k].text = text

\* the body node i of a docx file is a paragraph that _parse_metadata read
\* the title, the authors, the abstract or the keywords from
DocxMetadataNode(i) ==
  LET text == Strip(file.data[i].text)
      marked == {j \in 1..Len(file.data) :
                   file.data[j].kind = "p" /\ AbstractMarker(Strip(file.data[j].text))}
  IN /\ file.data[i].kind = "p"
     /\ text # <<>>
     /\ \/ text = metadata.title
        \/ AbstractMarker(text)
        \/ KeywordsMarker(text) /\ metadata.keywords # <<>>
        \/ metadata.authors # <<>> /\ \A j \in marked : i < j

\* the line i of a text file is one that _parse_metadata read the title, the
\* authors, the abstract or the keywords from
TxtMetadataLine(i) ==
  LET line == Strip(file.data[i])
  IN /\ line # <<>>
     /\ \/ i = 1 /\ line = metadata.title
        \/ i \in 2..5 /\ metadata.authors # <<>> /\ AuthorLine(SubSeq(file.data, 2, Min({5, Len(file.data)}))) = file.data[i]
        \/ AbstractMarkerLen(line) > 0 /\ metadata.abstract # <<>>
        \/ KeywordsMarker(line) /\ metadata.keywords # <<>>

C26_DocxSplit ==
  (file.kind = "docx" /\ pc = "parsed") =>
    \A i \in 1..Len(file.data) :
      DocxMetadataNode(i) => \A k \in DOMAIN content : i \notin Sources(content[k])
C26_TxtSplit ==
  (file.kind = "txt" /\ pc = "parsed") =>
    \A i \in DOMAIN file.data :
      TxtMetadataLine(i) =>
        \A k \in DOMAIN content :
          \A q \in DOMAIN TextLines(content[k]) : TextLines(content[k])[q] # Strip(file.data[i])

\* C26: metadata is split off before the blocks are classified: a paragraph
\* or line read as title, author line, abstract or keywords is not also a
\* block of content (docx and plain text)
C26_MetadataSplitOff == C26_DocxSplit /\ C26_TxtSplit

\* the place of the references heading among the nodes of the bibliography
\* part of a Markdown file, 0 when there is none
ReferencesNode ==
  LET hits == {k \in DOMAIN scan.bibliography_nodes :
                 /\ scan.bibliography_nodes[k].name \in HeadingNames
                 /\ Len(scan.bibliography_nodes[k].strings) = 1
                 /\ MentionsReferences(scan.bibliography_nodes[k].strings[1])}
  IN IF hits = {} THEN 0 ELSE Min(hits)
\* the lines of text of a heading, a paragraph or a list
NodeLines(node) ==
  IF node.name \in {"ul", "ol"}
    THEN [k \in DOMAIN LiTexts(node) |-> Strip(LiTexts(node)[k])]
  ELSE IF node.name \in HeadingNames \cup {"p"}
    THEN LET lines == Split(Strip(GetText(node.strings)), {"\n"})
         IN [k \in DOMAIN lines |-> Strip(lines[k])]
  ELSE <<>>
\* the line is part of the raw text of an entry of the bibliography
InBibliography(line) == \E e \in DOMAIN bibliography : Contains(bibliography[e].raw, line)

\* C27: in the Markdown extractor nothing of the body is lost at the
\* references split: the text of every heading, paragraph and list after the
\* References heading is in the raw text of an entry of the bibliography,
\* also when it follows a further heading
C27_NothingLostAtSplit ==
  (file.kind = "md" /\ pc = "parsed" /\ ReferencesNode # 0) =>
    \A k \in DOMAIN scan.bibliography_nodes :
      k > ReferencesNode =>
        \A q \in DOMAIN NodeLines(scan.bibliography_nodes[k]) :
          LET line == NodeLines(scan.bibliography_nodes[k])[q]
          IN line # <<>> => InBibliography(line)

\* C28: in every Document an extractor returns, the bibliography is either
\* exactly the one placeholder entry (empty id and raw, type misc) or every
\* entry of it has a non-empty raw; the placeholder never stands beside a
\* real entry
C28_PlaceholderOrRaw ==
  Extracted =>
    \/ /\ Len(bibliography) = 1
       /\ bibliography[1].id = <<>> /\ bibliography[1].raw = <<>>
       /\ bibliography[1].type = "misc"
    \/ /\ bibliography # <<>>
       /\ \A k \in DOMAIN bibliography : bibliography[k].raw # <<>>

\* a Document with several references, each with its text, was extracted
C28_Witness ==
  /\ Extracted
  /\ Len(bibliography) >= 2
  /\ \A k \in DOMAIN bibliography : bibliography[k].raw # <<>>

\* the lines of the main text that are neither blank nor noise nor a fence
TextLinesAt ==
  {i \in DOMAIN scan.lines :
     /\ Strip(scan.lines[i]) # <<>>
     /\ ~_is_noise_line(scan.lines[i])
     /\ ~_is_code_fence(scan.lines[i])}
\* the place of the n-th of them
PlaceOf(n) == CHOOSE i \in TextLinesAt : Cardinality({j \in TextLinesAt : j <= i}) = n

\* the lines a block holds: the lines of its text, the items of a list
HeldLines(block) ==
  IF block.type = "list" THEN block.items
  ELSE IF block.type = "quote" THEN Split(block.text, {"\n"})
  ELSE IF block.type = "formula_block" THEN Split(block.latex, {"\n"})
  ELSE TextLines(block)
NotBlank(line) == Strip(line) # <<>>
\* the lines of the blocks from the k-th on, each with the place of its block
RECURSIVE Held(_, _)
Held(blocks, k) ==
  IF k > Len(blocks) THEN <<>>
  ELSE LET lines == SelectSeq(HeldLines(blocks[k]), NotBlank)
       IN [q \in DOMAIN lines |-> [line |-> Strip(lines[q]), block |-> k]]
          \o Held(blocks, k + 1)

\* C29: in the plain text extractor every line of the main text that is
\* neither blank nor noise nor a fence is in exactly one emitted block, the
\* blocks stand in the order of their first lines, and outside a fenced code
\* block no block spans a blank line
C29_LinesOnceInOrder ==
  (file.kind = "txt" /\ pc = "parsed") =>
    LET held == Held(content, 1)
    IN /\ Len(held) = Cardinality(TextLinesAt)
       /\ \A n \in DOMAIN held : Contains(Strip(scan.lines[PlaceOf(n)]), held[n].line)
       /\ \A n \in 1..(Len(held) - 1) :
            (/\ held[n].block = held[n + 1].block
             /\ ~(Fenced(PlaceOf(n)) /\ Fenced(PlaceOf(n + 1))))
              => \A i \in PlaceOf(n)..PlaceOf(n + 1) : Strip(scan.lines[i]) # <<>>

\* a text with a blank line between two paragraphs and a fenced block was
\* extracted
C29_Witness ==
  /\ file.kind = "txt" /\ pc = "parsed"
  /\ Len(content) >= 2
  /\ \E i \in DOMAIN scan.lines : Strip(scan.lines[i]) = <<>>
  /\ \E k \in DOMAIN content : content[k].type = "code"
  /\ \E k \in DOMAIN content : content[k].type = "paragraph"

\* C30: after a failed compilation (a pass that does not exit with 0, a
\* timeout, no PDF, an invalid template directory) the temporary directory
\* of the call is gone once LaTeXCompilerTool._run has returned its failure
\* result; a temporary directory outlives a call only on success
C30_TempDirRemoved ==
  compile.pc = "returned" =>
    /\ compile.response[1].message = "failure" => ~compile.tmp.made
    /\ compile.tmp.made => compile.response[1].message = "success"
====
